---- MODULE Spec2Model ----
(***************************************************************************)
(* Model of indicator-extractor: the indicator-set generation              *)
(* (src/bin/indicatorSet.js), the manifest processing                      *)
(* (src/bin/processManifest.js) and the command line run (src/bin/cli.js). *)
(* JavaScript values are tagged records [t |-> <type>, ...]; a JavaScript  *)
(* string is the sequence of its characters, so that includes, split, trim *)
(* and the key normalisation are computed character by character as the    *)
(* code does.                                                              *)
(***************************************************************************)
EXTENDS Integers, Sequences, FiniteSets, TLC

VARIABLES
    manifestStore,      \* argument 1 of generateIndicatorSet (mutable heap object)
    validationResult,   \* argument 2
    fileBuffer,         \* argument 3
    exifTags,           \* what ExifReader.load(fileBuffer) does for this buffer
    indicatorSet,       \* the local object built at indicatorSet.js:287
    outcome,            \* of the last call: "pending" | "returned" | "TypeError"
    inputFile,          \* the <input-file> of a command line run, as the file system has it
    options,            \* the options of the run: [set, pretty]
    asset,              \* what the c2pa-ts collaborators do with the bytes of the file
    pc,                 \* the position of the run in processFile / processManifestStore
    c2paInfo,           \* the c2paInfo object (processManifest.js:50, cli.js:67)
    calls,              \* the calls made to the c2pa-ts collaborators, in order
    console,            \* the lines printed, in order
    disk,               \* the output directory: whether it exists, and the files written
    exitCode            \* of the process: "running" | 0 | 1

setVars == <<manifestStore, validationResult, fileBuffer, exifTags, indicatorSet, outcome>>
cliVars == <<inputFile, options, asset, pc, c2paInfo, calls, console, disk, exitCode>>
vars == <<manifestStore, validationResult, fileBuffer, exifTags, indicatorSet, outcome,
          inputFile, options, asset, pc, c2paInfo, calls, console, disk, exitCode>>

(***************************************************************************)
(* Bounds of the model.                                                    *)
(***************************************************************************)
MaxEntries == 2
MaxAssertions == 2
MaxHashedURIs == 2
MaxManifests == 2
MaxTags == 2

(***************************************************************************)
(* JavaScript values.                                                      *)
(***************************************************************************)
Undef == [t |-> "undefined"]
Null == [t |-> "null"]
Bool(b) == [t |-> "boolean", b |-> b]
Num(n) == [t |-> "number", n |-> n]
Str(s) == [t |-> "string", s |-> s]
Arr(a) == [t |-> "array", a |-> a]
Obj(o) == [t |-> "object", o |-> o]
U8(b) == [t |-> "Uint8Array", bytes |-> b]
Buf(b) == [t |-> "Buffer", bytes |-> b]
EmptyObj == Obj([k \in {} |-> Null])
Thrown == [t |-> "TypeError"]

IsNullish(v) == v.t \in {"undefined", "null"}
IsThrown(v) == v.t = "TypeError"
\* typeof v === 'object' && v !== null
TypeofObject(v) == v.t \in {"array", "object", "Uint8Array", "Buffer"}
\* the conversion to boolean behind if (v), v || w, v ? a : b, filter(Boolean)
Truthy(v) ==
    CASE v.t \in {"undefined", "null"} -> FALSE
      [] v.t = "boolean" -> v.b
      [] v.t = "number" -> v.n # 0
      [] v.t = "string" -> v.s # <<>>
      [] OTHER -> TRUE
\* a || b
Or(a, b) == IF Truthy(a) THEN a ELSE b
\* o.k on an object: undefined for a missing property
Get(o, k) == IF o.t = "object" /\ k \in DOMAIN o.o THEN o.o[k] ELSE Undef
\* o?.k
OptGet(o, k) == IF IsNullish(o) THEN Undef ELSE Get(o, k)
\* Object.prototype.hasOwnProperty.call(o, k)
HasOwn(o, k) == o.t = "object" /\ k \in DOMAIN o.o

(***************************************************************************)
(* Strings as character sequences.                                         *)
(***************************************************************************)
LowerAlphabet == <<"a","b","c","d","e","f","g","h","i","j","k","l","m",
                   "n","o","p","q","r","s","t","u","v","w","x","y","z">>
UpperAlphabet == <<"A","B","C","D","E","F","G","H","I","J","K","L","M",
                   "N","O","P","Q","R","S","T","U","V","W","X","Y","Z">>
Digits == <<"0","1","2","3","4","5","6","7","8","9">>
Range(f) == {f[i] : i \in DOMAIN f}
IndexOf(seq, c) == CHOOSE i \in DOMAIN seq : seq[i] = c
IsLower(c) == c \in Range(LowerAlphabet)
IsUpper(c) == c \in Range(UpperAlphabet)
IsLetter(c) == IsLower(c) \/ IsUpper(c)
ToUpperCase(c) == IF IsLower(c) THEN UpperAlphabet[IndexOf(LowerAlphabet, c)] ELSE c
ToLowerCase(c) == IF IsUpper(c) THEN LowerAlphabet[IndexOf(UpperAlphabet, c)] ELSE c
\* the class \s of the regular expressions, as far as the inputs use it
IsSpace(c) == c \in {" ", "\t"}

\* s.includes(p)
Includes(s, p) ==
    \E i \in 1..(Len(s) - Len(p) + 1) : SubSeq(s, i, i + Len(p) - 1) = p
\* s.startsWith(p)
StartsWith(s, p) == Len(s) >= Len(p) /\ SubSeq(s, 1, Len(p)) = p

\* s.split(c) for a one-character separator: the list of the pieces
RECURSIVE SplitFrom(_, _, _)
SplitFrom(s, c, cur) ==
    IF s = <<>> THEN <<cur>>
    ELSE IF Head(s) = c THEN <<cur>> \o SplitFrom(Tail(s), c, <<>>)
    ELSE SplitFrom(Tail(s), c, Append(cur, Head(s)))
Split(s, c) == SplitFrom(s, c, <<>>)

\* pieces.join(c)
RECURSIVE Join(_, _)
Join(pieces, c) ==
    IF pieces = <<>> THEN <<>>
    ELSE IF Len(pieces) = 1 THEN pieces[1]
    ELSE pieces[1] \o <<c>> \o Join(Tail(pieces), c)

\* s.trim()
RECURSIVE TrimStart(_)
TrimStart(s) == IF s # <<>> /\ IsSpace(Head(s)) THEN TrimStart(Tail(s)) ELSE s
RECURSIVE TrimEnd(_)
TrimEnd(s) ==
    IF s # <<>> /\ IsSpace(s[Len(s)]) THEN TrimEnd(SubSeq(s, 1, Len(s) - 1)) ELSE s
Trim(s) == TrimEnd(TrimStart(s))

(***************************************************************************)
(* Buffer.from(bytes).toString('base64') and the digest.                   *)
(***************************************************************************)
Base64Alphabet == UpperAlphabet \o LowerAlphabet \o Digits \o <<"+", "/">>
B64(n) == Base64Alphabet[n + 1]
B64Pad == "="

RECURSIVE Base64Chars(_)
Base64Chars(b) ==
    IF b = <<>> THEN <<>>
    ELSE IF Len(b) = 1 THEN
        <<B64(b[1] \div 4), B64((b[1] % 4) * 16), B64Pad, B64Pad>>
    ELSE IF Len(b) = 2 THEN
        <<B64(b[1] \div 4), B64((b[1] % 4) * 16 + b[2] \div 16),
          B64((b[2] % 16) * 4), B64Pad>>
    ELSE
        <<B64(b[1] \div 4), B64((b[1] % 4) * 16 + b[2] \div 16),
          B64((b[2] % 16) * 4 + b[3] \div 64), B64(b[3] % 64)>>
        \o Base64Chars(SubSeq(b, 4, Len(b)))

\* Buffer.from(x): a byte array keeps its bytes, numbers are taken modulo 256
BufferFrom(x) ==
    IF x.t \in {"Uint8Array", "Buffer"} THEN x.bytes
    ELSE [i \in DOMAIN x.a |-> x.a[i].n % 256]
ToBase64(x) == Str(Base64Chars(BufferFrom(x)))

\* createHash('sha256').update(b).digest(): the digest of the external crypto
\* module, a fixed function of the bytes (here: length, sum and weighted sum)
RECURSIVE ByteSum(_, _)
ByteSum(b, w) == IF b = <<>> THEN 0 ELSE (Head(b) * w + ByteSum(Tail(b), w + 1)) % 256
Sha256(b) == <<Len(b) % 256, ByteSum(b, 1), ByteSum(b, 3)>>

(***************************************************************************)
(* Objects as finite maps: o[k] = v, and a left-to-right fold.             *)
(***************************************************************************)
ObjSet(o, k, v) == [x \in (DOMAIN o) \cup {k} |-> IF x = k THEN v ELSE o[x]]
ObjDelete(o, k) == [x \in (DOMAIN o) \ {k} |-> o[x]]
NoProps == [k \in {} |-> Null]

(***************************************************************************)
(* extractMetadata (indicatorSet.js:24-64).                                *)
(***************************************************************************)
IsSeparator(c) == c = "_" \/ IsSpace(c)
RECURSIVE SeparatorRun(_)
SeparatorRun(s) ==
    IF s # <<>> /\ IsSeparator(Head(s)) THEN 1 + SeparatorRun(Tail(s)) ELSE 0

\* key.replace(/[_\s]+([a-zA-Z])/g, (_, c) => c.toUpperCase())
RECURSIVE ReplaceSeparators(_)
ReplaceSeparators(s) ==
    IF s = <<>> THEN <<>>
    ELSE IF IsSeparator(Head(s)) THEN
        LET k == SeparatorRun(s) IN
        IF k < Len(s) /\ IsLetter(s[k + 1])
        THEN <<ToUpperCase(s[k + 1])>> \o ReplaceSeparators(SubSeq(s, k + 2, Len(s)))
        ELSE SubSeq(s, 1, k) \o ReplaceSeparators(SubSeq(s, k + 1, Len(s)))
    ELSE <<Head(s)>> \o ReplaceSeparators(Tail(s))

\* .replace(/^([A-Z])/, m => m.toLowerCase())
LowerFirst(s) == IF s # <<>> /\ IsUpper(Head(s)) THEN <<ToLowerCase(Head(s))>> \o Tail(s) ELSE s
camelCaseKey(key) == LowerFirst(ReplaceSeparators(key))

\* .replace(/\//g, '')
RECURSIVE StripSlashes(_)
StripSlashes(s) ==
    IF s = <<>> THEN <<>>
    ELSE IF Head(s) = "/" THEN StripSlashes(Tail(s))
    ELSE <<Head(s)>> \o StripSlashes(Tail(s))

sanitizedKey(key) ==
    LET k0 == StripSlashes(camelCaseKey(key))
        k1 == IF StartsWith(k0, <<"i","C","C">>)
              THEN <<"I","C","C">> \o SubSeq(k0, 4, Len(k0)) ELSE k0
    IN IF StartsWith(k1, <<"j","F","I","F">>)
       THEN <<"J","F","I","F">> \o SubSeq(k1, 5, Len(k1)) ELSE k1

\* the condition of lines 33-38 on one tag
TagHasValue(tag) ==
    /\ Truthy(tag)
    /\ TypeofObject(tag)
    /\ tag.t = "object" /\ "value" \in DOMAIN tag.o
    /\ ~(tag.o["value"].t = "string" /\ tag.o["value"].s = <<>>)

RECURSIVE processedMetadata(_, _)
processedMetadata(entries, acc) ==
    IF entries = <<>> THEN acc
    ELSE LET e == Head(entries) IN
         processedMetadata(Tail(entries),
             IF TagHasValue(e.tag)
             THEN ObjSet(acc, sanitizedKey(e.key), e.tag.o["value"])
             ELSE acc)

K_extractedAt == <<"e","x","t","r","a","c","t","e","d","A","t">>
K_source == <<"s","o","u","r","c","e">>
K_error == <<"e","r","r","o","r">>
S_exifreader == <<"e","x","i","f","r","e","a","d","e","r">>
S_FailedToExtract ==
    <<"F","a","i","l","e","d"," ","t","o"," ","e","x","t","r","a","c","t"," ",
      "m","e","t","a","d","a","t","a",":"," ">>

\* the catch block returning an empty record in place of the diagnostic one
extractMetadataSilently(buffer, tags, now) ==
    IF ~Truthy(buffer) \/ tags.t = "throws" THEN EmptyObj
    ELSE Obj(processedMetadata(tags.entries, NoProps))

\* buffer: the file buffer; tags: what ExifReader.load does with it;
\* now: new Date().toISOString() at the time of the failure
extractMetadata(buffer, tags, now) ==
    IF ~Truthy(buffer) THEN EmptyObj
    ELSE IF tags.t = "throws" THEN
        Obj((K_extractedAt :> Str(now)) @@ (K_source :> Str(S_exifreader))
            @@ (K_error :> Str(S_FailedToExtract \o tags.message)))
    ELSE Obj(processedMetadata(tags.entries, NoProps))

(***************************************************************************)
(* moveMetadataKeysToContent (indicatorSet.js:71-89).                      *)
(***************************************************************************)
keysToMove ==
    << <<"i","m","a","g","e","W","i","d","t","h">>,
       <<"i","m","a","g","e","H","e","i","g","h","t">>,
       <<"b","i","t","D","e","p","t","h">>,
       <<"c","o","l","o","r","T","y","p","e">>,
       <<"c","o","m","p","r","e","s","s","i","o","n">>,
       <<"f","i","l","t","e","r">>,
       <<"i","n","t","e","r","l","a","c","e">>,
       <<"f","i","l","e","T","y","p","e">> >>

\* set: [metadata, content]; the result is the pair after the loop
RECURSIVE MoveKeys(_, _)
MoveKeys(keys, set) ==
    IF keys = <<>> THEN set
    ELSE LET key == Head(keys) IN
         MoveKeys(Tail(keys),
             IF HasOwn(set.metadata, key)
             THEN [metadata |-> Obj(ObjDelete(set.metadata.o, key)),
                   content |-> Obj(ObjSet(set.content.o, key, set.metadata.o[key]))]
             ELSE set)
\* the keys copied to content but not deleted from metadata
RECURSIVE CopyKeys(_, _)
CopyKeys(keys, set) ==
    IF keys = <<>> THEN set
    ELSE LET key == Head(keys) IN
         CopyKeys(Tail(keys),
             IF HasOwn(set.metadata, key)
             THEN [metadata |-> set.metadata,
                   content |-> Obj(ObjSet(set.content.o, key, set.metadata.o[key]))]
             ELSE set)
copyMetadataKeysToContent(set) == CopyKeys(keysToMove, set)
moveMetadataKeysToContent(set) == MoveKeys(keysToMove, set)

(***************************************************************************)
(* Status classifier (indicatorSet.js:100-126).  statusCodes is the list   *)
(* returned by validationResult.toRepresentation().                        *)
(***************************************************************************)
S_unknown == <<"u","n","k","n","o","w","n">>
S_claimSignatureDot == <<"c","l","a","i","m","S","i","g","n","a","t","u","r","e",".">>
S_assertion == <<"a","s","s","e","r","t","i","o","n">>
S_assertionDataHash == <<"a","s","s","e","r","t","i","o","n",".","d","a","t","a","H","a","s","h">>
S_assertionHashBmff == <<"a","s","s","e","r","t","i","o","n",".","h","a","s","h",".","b","m","f","f">>
S_signingCredential == <<"s","i","g","n","i","n","g","C","r","e","d","e","n","t","i","a","l">>

\* statusCodes.find(oneCode => oneCode.code.includes(whichCode)): its index, 0 for none
RECURSIVE FindIndex(_, _, _)
FindIndex(statusCodes, whichCode, i) ==
    IF i > Len(statusCodes) THEN 0
    ELSE IF Includes(statusCodes[i].code.s, whichCode) THEN i
    ELSE FindIndex(statusCodes, whichCode, i + 1)

\* findLast in place of find
RECURSIVE FindLastIndex(_, _, _)
FindLastIndex(statusCodes, whichCode, i) ==
    IF i < 1 THEN 0
    ELSE IF Includes(statusCodes[i].code.s, whichCode) THEN i
    ELSE FindLastIndex(statusCodes, whichCode, i - 1)
getLastResultCodeValue(statusCodes, whichCode) ==
    LET found == FindLastIndex(statusCodes, whichCode, Len(statusCodes)) IN
    IF found = 0 THEN Null ELSE statusCodes[found].code

getResultCodeValue(statusCodes, whichCode) ==
    LET found == FindIndex(statusCodes, whichCode, 1) IN
    IF found = 0 THEN Null ELSE statusCodes[found].code

\* the loop of getAssertionStatus from entry i on, codes being the map so far;
\* oneCode.url.split throws a TypeError when url is not a string
RECURSIVE AssertionStatusFrom(_, _, _)
AssertionStatusFrom(statusCodes, i, codes) ==
    IF i > Len(statusCodes) THEN Obj(codes)
    ELSE LET oneCode == statusCodes[i] IN
         IF Includes(oneCode.code.s, S_assertion) THEN
             IF oneCode.url.t # "string" THEN Thrown
             ELSE LET urlParts == Split(oneCode.url.s, "/")
                      lastPart == urlParts[Len(urlParts)]
                  IN AssertionStatusFrom(statusCodes, i + 1,
                                         ObjSet(codes, lastPart, oneCode.code))
         ELSE AssertionStatusFrom(statusCodes, i + 1, codes)
\* the first code of a url tail kept, later ones ignored
RECURSIVE AssertionStatusKeepFirstFrom(_, _, _)
AssertionStatusKeepFirstFrom(statusCodes, i, codes) ==
    IF i > Len(statusCodes) THEN Obj(codes)
    ELSE LET oneCode == statusCodes[i] IN
         IF Includes(oneCode.code.s, S_assertion) THEN
             IF oneCode.url.t # "string" THEN Thrown
             ELSE LET urlParts == Split(oneCode.url.s, "/")
                      lastPart == urlParts[Len(urlParts)]
                  IN AssertionStatusKeepFirstFrom(statusCodes, i + 1,
                         IF lastPart \in DOMAIN codes THEN codes
                         ELSE ObjSet(codes, lastPart, oneCode.code))
         ELSE AssertionStatusKeepFirstFrom(statusCodes, i + 1, codes)
getAssertionStatusKeepFirst(statusCodes) ==
    AssertionStatusKeepFirstFrom(statusCodes, 1, NoProps)
getAssertionStatus(statusCodes) == AssertionStatusFrom(statusCodes, 1, NoProps)

(***************************************************************************)
(* parseDistinguishedName (indicatorSet.js:146-158).                       *)
(***************************************************************************)
\* the reduction with the first value of a key kept
RECURSIVE ReducePairsKeepFirst(_, _)
ReducePairsKeepFirst(pairs, acc) ==
    IF pairs = <<>> THEN acc
    ELSE LET parts == Split(Head(pairs), "=")
             key == Head(parts)
             rest == Tail(parts)
         IN ReducePairsKeepFirst(Tail(pairs),
                IF key # <<>> /\ Len(rest) > 0 /\ Trim(key) \notin DOMAIN acc
                THEN ObjSet(acc, Trim(key), Str(Trim(Join(rest, "="))))
                ELSE acc)

RECURSIVE ReducePairs(_, _)
ReducePairs(pairs, acc) ==
    IF pairs = <<>> THEN acc
    ELSE LET parts == Split(Head(pairs), "=")
             key == Head(parts)
             rest == Tail(parts)
         IN ReducePairs(Tail(pairs),
                IF key # <<>> /\ Len(rest) > 0
                THEN ObjSet(acc, Trim(key), Str(Trim(Join(rest, "="))))
                ELSE acc)

parseDistinguishedName(dnString) ==
    IF dnString.t # "string" THEN EmptyObj
    ELSE LET parts == Split(dnString.s, ",")
             trimmed == [i \in DOMAIN parts |-> Trim(parts[i])]
             kept == SelectSeq(trimmed, LAMBDA part : part # <<>>)
         IN Obj(ReducePairs(kept, NoProps))

(***************************************************************************)
(* convertHashFields (indicatorSet.js:168-184).  The code rewrites the     *)
(* object in place; ConvertedObject(obj) is the object after the call.     *)
(***************************************************************************)
IsUint8Array(v) == v.t \in {"Uint8Array", "Buffer"}
IsNumberArray(v) == v.t = "array" /\ \A i \in DOMAIN v.a : v.a[i].t = "number"
\* the two branches that assign obj[key] a base64 string
IsByteLike(v) == IsUint8Array(v) \/ IsNumberArray(v)

RECURSIVE ConvertedObject(_)
\* a hash that is not a byte array replaced by null, as hashedURIToJSON does
ConvertedPropertyBytesOnly(key, v) ==
    IF key = "hash" THEN (IF IsByteLike(v) THEN ToBase64(v) ELSE Null)
    ELSE IF TypeofObject(v) THEN ConvertedObject(v)
    ELSE v
ConvertedProperty(key, v) ==
    IF key = "hash" /\ IsByteLike(v) THEN ToBase64(v)
    ELSE IF TypeofObject(v) THEN ConvertedObject(v)
    ELSE v
ConvertedObject(obj) ==
    CASE obj.t = "object" ->
            Obj([key \in DOMAIN obj.o |-> ConvertedProperty(key, obj.o[key])])
      [] obj.t = "array" ->
            \* Object.keys of an array are its indices, never 'hash'
            Arr([i \in DOMAIN obj.a |->
                    IF TypeofObject(obj.a[i]) THEN ConvertedObject(obj.a[i]) ELSE obj.a[i]])
      [] OTHER -> obj
convertHashFields(obj) == ConvertedObject(obj)

(***************************************************************************)
(* processAssertions (indicatorSet.js:199-214).                            *)
(***************************************************************************)
StrippedKeys == {"uuid", "sourceBox", "componentType", "label", "content"}

\* the destructuring without the content field
RestOfKeepingContent(assertion) ==
    Obj([k \in (DOMAIN assertion.o) \ (StrippedKeys \ {"content"}) |-> assertion.o[k]])

\* const { uuid, sourceBox, componentType, label, content, ...rest } = assertion
RestOf(assertion) == Obj([k \in (DOMAIN assertion.o) \ StrippedKeys |-> assertion.o[k]])

\* rest after convertHashFields(rest)
ProjectedAssertion(assertion) == convertHashFields(RestOf(assertion))

\* the assertion object itself after convertHashFields(rest): rest is a shallow
\* copy, so an assignment to rest.hash leaves the assertion alone while every
\* nested object is shared with the assertion and is rewritten in it
AssertionAfter(assertion) ==
    Obj([k \in DOMAIN assertion.o |->
            IF k \in StrippedKeys THEN assertion.o[k]
            ELSE IF k = "hash" /\ IsByteLike(assertion.o[k]) THEN assertion.o[k]
            ELSE ConvertedProperty(k, assertion.o[k])])

AssertionKey(assertion) == Or(Get(assertion, "label"), Str(S_unknown)).s

\* the loop with the first entry of a key kept
RECURSIVE AssertionsObjFromKeepFirst(_, _)
AssertionsObjFromKeepFirst(list, assertionsObj) ==
    IF list = <<>> THEN assertionsObj
    ELSE AssertionsObjFromKeepFirst(Tail(list),
            IF AssertionKey(Head(list)) \in DOMAIN assertionsObj THEN assertionsObj
            ELSE ObjSet(assertionsObj, AssertionKey(Head(list)),
                        ProjectedAssertion(Head(list))))

RECURSIVE AssertionsObjFrom(_, _)
AssertionsObjFrom(list, assertionsObj) ==
    IF list = <<>> THEN assertionsObj
    ELSE AssertionsObjFrom(Tail(list),
            ObjSet(assertionsObj, AssertionKey(Head(list)), ProjectedAssertion(Head(list))))

processAssertions(assertions) ==
    IF ~Truthy(assertions) \/ ~Truthy(Get(assertions, "assertions")) THEN EmptyObj
    ELSE Obj(AssertionsObjFrom(Get(assertions, "assertions").a, NoProps))

\* manifest.assertions after processAssertions(manifest.assertions)
AssertionsAfter(assertions) ==
    IF ~Truthy(assertions) \/ ~Truthy(Get(assertions, "assertions")) THEN assertions
    ELSE LET list == Get(assertions, "assertions").a IN
         Obj(ObjSet(assertions.o, "assertions",
                    Arr([i \in DOMAIN list |-> AssertionAfter(list[i])])))

(***************************************************************************)
(* hashedURIToJSON, processHashedURIs (indicatorSet.js:225-246).           *)
(***************************************************************************)
\* the record with alg assigned without the test of line 238
hashedURIToJSONAlwaysAlg(hashedURI) ==
    IF ~Truthy(hashedURI) \/ ~TypeofObject(hashedURI) THEN EmptyObj
    ELSE LET uri == Get(hashedURI, "uri")
             hash == Get(hashedURI, "hash")
             hashBase64 == IF IsByteLike(hash) THEN ToBase64(hash) ELSE Null
         IN Obj([url |-> Or(uri, Null), hash |-> hashBase64, alg |-> Get(hashedURI, "alg")])

hashedURIToJSON(hashedURI) ==
    IF ~Truthy(hashedURI) \/ ~TypeofObject(hashedURI) THEN EmptyObj
    ELSE LET uri == Get(hashedURI, "uri")
             hash == Get(hashedURI, "hash")
             alg == Get(hashedURI, "alg")
             hashBase64 == IF IsUint8Array(hash) THEN ToBase64(hash)
                           ELSE IF IsNumberArray(hash) THEN ToBase64(hash)
                           ELSE Null
             result == [url |-> Or(uri, Null), hash |-> hashBase64]
         IN Obj(IF alg.t # "null" THEN ObjSet(result, "alg", alg) ELSE result)

processHashedURIs(hashedURIs) ==
    IF ~Truthy(hashedURIs) \/ hashedURIs.t # "array" THEN Arr(<<>>)
    ELSE Arr([i \in DOMAIN hashedURIs.a |-> hashedURIToJSON(hashedURIs.a[i])])

(***************************************************************************)
(* getSignatureAlgoName (indicatorSet.js:248-267).                         *)
(***************************************************************************)
CoseName(n) ==
    CASE n = -7 -> <<"E","S","2","5","6">>
      [] n = -35 -> <<"E","S","3","8","4">>
      [] n = -36 -> <<"E","S","5","1","2">>
      [] n = -37 -> <<"P","S","2","5","6">>
      [] n = -38 -> <<"P","S","3","8","4">>
      [] n = -39 -> <<"P","S","5","1","2">>
      [] n = -8 -> <<"E","d","2","5","5","1","9">>
      [] OTHER -> <<"U","n","k","n","o","w","n">>

\* algorithm.coseIdentifier throws a TypeError on undefined or null
getSignatureAlgoName(algorithm) ==
    IF IsNullish(algorithm) THEN Thrown
    ELSE LET id == Get(algorithm, "coseIdentifier") IN
         IF id.t = "number" THEN Str(CoseName(id.n)) ELSE Str(<<"U","n","k","n","o","w","n">>)

(***************************************************************************)
(* generateIndicatorSet (indicatorSet.js:286-376).                         *)
(***************************************************************************)
S_sha256 == <<"s","h","a","2","5","6">>
S_info == <<"i","n","f","o">>
S_vocab == <<"h","t","t","p","s",":","/","/","j","p","e","g",".","o","r","g","/","j","p","e","g","t","r","u","s","t">>
S_extras == <<"h","t","t","p","s",":","/","/","j","p","e","g",".","o","r","g","/","j","p","e","g","t","r","u","s","t","/","e","x","t","r","a","s">>
S_ErrorColon == <<"E","r","r","o","r",":"," ">>

\* validationResult.toRepresentation() of the validation library: the status
\* entries in their order, each with its code and url
toRepresentation(result) ==
    LET entries == Get(result, "statusEntries").a IN
    [i \in DOMAIN entries |->
        [code |-> Get(entries[i], "code"), url |-> Get(entries[i], "url")]]

\* digest('hex') in place of digest('base64')
HexDigits == Digits \o <<"a", "b", "c", "d", "e", "f">>
AssetInfoHex(buffer) ==
    IF Truthy(buffer)
    THEN Obj([alg |-> Str(S_sha256),
              hash |-> Str([i \in 1..(2 * Len(Sha256(buffer.bytes))) |->
                  LET byte == Sha256(buffer.bytes)[(i + 1) \div 2] IN
                  HexDigits[(IF i % 2 = 1 THEN byte \div 16 ELSE byte % 16) + 1]])])
    ELSE EmptyObj

\* lines 299-306
AssetInfo(buffer) ==
    IF Truthy(buffer)
    THEN Obj([alg |-> Str(S_sha256), hash |-> Str(Base64Chars(Sha256(buffer.bytes)))])
    ELSE EmptyObj

\* the key named after the version number: "claim.v2" for version 2
ClaimKeyByNumber(manifest) ==
    LET version == OptGet(Get(manifest, "claim"), "version") IN
    IF version.t = "number" /\ version.n = 2 THEN "claim.v2" ELSE "claim"

\* lines 325-336: the key and the view of the claim
ClaimKey(manifest) ==
    LET version == OptGet(Get(manifest, "claim"), "version") IN
    IF version.t = "number" /\ version.n = 1 THEN "claim.v2" ELSE "claim"

ClaimView(manifest) ==
    LET claim == Get(manifest, "claim") IN
    Obj(("dc:title" :> Or(OptGet(claim, "title"), Null))
        @@ [instanceID |-> Or(OptGet(claim, "instanceID"), Null),
            claim_generator |->
                IF Truthy(OptGet(claim, "claimGeneratorInfo"))
                THEN Get(claim, "claimGeneratorInfo")
                ELSE Or(OptGet(claim, "claimGeneratorName"), Null),
            alg |-> Or(OptGet(claim, "defaultAlgorithm"), Null),
            signature |-> Or(OptGet(claim, "signatureRef"), Null),
            created_assertions |-> processHashedURIs(OptGet(claim, "assertions")),
            gathered_assertions |-> processHashedURIs(OptGet(claim, "gatheredAssertions")),
            redacted_assertions |-> processHashedURIs(OptGet(claim, "redactedAssertions"))])

\* lines 337-346; a TypeError when manifest.signature is missing or when
\* getSignatureAlgoName is handed undefined
ClaimSignature(manifest) ==
    LET signature == Get(manifest, "signature") IN
    IF IsNullish(signature) THEN Thrown
    ELSE LET signatureData == Get(signature, "signatureData")
             certificate == OptGet(signatureData, "certificate")
             name == getSignatureAlgoName(OptGet(signatureData, "algorithm"))
         IN IF IsThrown(name) THEN Thrown
            ELSE Obj([algorithm |-> Or(name, Null),
                      serial_number |-> Or(OptGet(certificate, "serialNumber"), Null),
                      issuer |-> parseDistinguishedName(OptGet(certificate, "issuer")),
                      subject |-> parseDistinguishedName(OptGet(certificate, "subject")),
                      validity |-> Obj([
                          not_before |-> Or(OptGet(certificate, "notBefore"), Null),
                          not_after |-> Or(OptGet(certificate, "notAfter"), Null)])])

\* line 349
SignatureStatus(valStatusCodes) ==
    Or(getResultCodeValue(valStatusCodes, S_claimSignatureDot), Str(S_unknown))
\* one scan for either pattern: the first entry that matches any of the two
RECURSIVE FindEitherIndex(_, _)
FindEitherIndex(statusCodes, i) ==
    IF i > Len(statusCodes) THEN 0
    ELSE IF \/ Includes(statusCodes[i].code.s, S_assertionDataHash)
            \/ Includes(statusCodes[i].code.s, S_assertionHashBmff) THEN i
    ELSE FindEitherIndex(statusCodes, i + 1)
ContentStatusEitherFirst(valStatusCodes) ==
    LET found == FindEitherIndex(valStatusCodes, 1) IN
    IF found = 0 THEN Str(S_unknown) ELSE valStatusCodes[found].code
\* line 351
ContentStatus(valStatusCodes) ==
    Or(getResultCodeValue(valStatusCodes, S_assertionDataHash),
       Or(getResultCodeValue(valStatusCodes, S_assertionHashBmff), Str(S_unknown)))
\* 'unknown' as for the other fields
TrustDefaultUnknown == Str(S_unknown)
\* line 352: the value after || for trust
TrustDefault == Str(<<>>)
TrustStatus(valStatusCodes) ==
    Or(getResultCodeValue(valStatusCodes, S_signingCredential), TrustDefault)

\* lines 348-353
Status(valStatusCodes) ==
    LET assertion == getAssertionStatus(valStatusCodes) IN
    IF IsThrown(assertion) THEN Thrown
    ELSE Obj([signature |-> SignatureStatus(valStatusCodes),
              assertion |-> Or(assertion, Str(S_unknown)),
              content |-> ContentStatus(valStatusCodes),
              trust |-> TrustStatus(valStatusCodes)])

\* the object pushed at lines 322-354 for one manifest, or Thrown
ManifestIndicator(manifest, valStatusCodes) ==
    LET claim_signature == ClaimSignature(manifest)
        status == Status(valStatusCodes)
    IN IF IsThrown(claim_signature) \/ IsThrown(status) THEN Thrown
       ELSE Obj((ClaimKey(manifest) :> ClaimView(manifest))
                @@ [label |-> Or(Get(manifest, "label"), Null),
                    assertions |-> processAssertions(Get(manifest, "assertions")),
                    claim_signature |-> claim_signature,
                    status |-> status])

\* a manifest after its indicator was computed: processAssertions ran on it
ManifestAfter(manifest) ==
    IF HasOwn(manifest, "assertions")
    THEN Obj(ObjSet(manifest.o, "assertions", AssertionsAfter(manifest.o["assertions"])))
    ELSE manifest

\* the loop of lines 321-355 from manifest i on: the entries pushed, the
\* manifests as the loop leaves them, and whether an entry threw
RECURSIVE ManifestLoop(_, _, _, _)
ManifestLoop(manifests, valStatusCodes, i, pushed) ==
    IF i > Len(manifests)
    THEN [pushed |-> pushed, manifests |-> manifests, threw |-> FALSE]
    ELSE LET entry == ManifestIndicator(manifests[i], valStatusCodes)
             after == [manifests EXCEPT ![i] = ManifestAfter(manifests[i])]
         IN IF IsThrown(entry)
            THEN [pushed |-> pushed, manifests |-> after, threw |-> TRUE]
            ELSE ManifestLoop(after, valStatusCodes, i + 1, Append(pushed, entry))

\* err.toString() of a validation error: a string is itself, an Error object
\* prints as "Error: <message>"
ErrToString(err) ==
    IF err.t = "string" THEN err ELSE Str(S_ErrorColon \o Get(err, "message").s)

\* lines 360-372
ValidationStatus(result) ==
    LET errors == Get(result, "validationErrors")
        entries == Get(result, "statusEntries").a
    IN Obj([isValid |-> Or(Get(result, "isValid"), Bool(FALSE)),
            error |-> Or(Get(result, "error"), Null),
            validationErrors |->
                IF errors.t = "array"
                THEN Arr([i \in DOMAIN errors.a |-> ErrToString(errors.a[i])])
                ELSE Arr(<<>>),
            entries |-> Arr([i \in DOMAIN entries |->
                Obj([code |-> Get(entries[i], "code"),
                     message |-> Get(entries[i], "message"),
                     url |-> Or(Get(entries[i], "url"), Null),
                     severity |-> Or(Get(entries[i], "severity"), Str(S_info))])])])

\* the document of line 287 with asset_info, metadata and content filled in
\* (lines 287-312)
BaseIndicatorSet(buffer, tags, now) ==
    LET moved == moveMetadataKeysToContent(
                     [metadata |-> extractMetadata(buffer, tags, now),
                      content |-> EmptyObj])
    IN ("@context" :> Obj(("@vocab" :> Str(S_vocab)) @@ [extras |-> Str(S_extras)]))
       @@ [asset_info |-> AssetInfo(buffer),
           manifests |-> Arr(<<>>),
           content |-> moved.content,
           metadata |-> moved.metadata]

\* the summary attached whether or not a validation result was supplied
WithValidationStatusAlways(set, result) ==
    ObjSet(set, "extras:validation_status",
           IF Truthy(result) THEN ValidationStatus(result) ELSE Null)
\* line 359
WithValidationStatus(set, result) ==
    IF Truthy(result)
    THEN ObjSet(set, "extras:validation_status", ValidationStatus(result))
    ELSE set

\* toRepresentation() called before the test for a manifest store
WithoutManifestStoreEager(result, buffer, tags, now) ==
    IF IsNullish(result)
    THEN [indicatorSet |-> Obj(BaseIndicatorSet(buffer, tags, now)), outcome |-> "TypeError"]
    ELSE [indicatorSet |->
              Obj(WithValidationStatus(BaseIndicatorSet(buffer, tags, now), result)),
          outcome |-> "returned"]

\* a call without a manifest store (the test of line 317 fails): lines 287-312
\* and 358-375
WithoutManifestStore(result, buffer, tags, now) ==
    [indicatorSet |-> Obj(WithValidationStatus(BaseIndicatorSet(buffer, tags, now), result)),
     outcome |-> "returned"]

\* a call with a manifest store: lines 287-375
WithManifestStore(store, result, buffer, tags, now) ==
    LET base == BaseIndicatorSet(buffer, tags, now) IN
    IF IsNullish(result)
    THEN \* validationResult.toRepresentation() on null
         [indicatorSet |-> Obj(base), outcome |-> "TypeError", store |-> store]
    ELSE LET loop == ManifestLoop(Get(store, "manifests").a, toRepresentation(result),
                                  1, <<>>)
             filled == ObjSet(base, "manifests", Arr(loop.pushed))
             after == Obj(ObjSet(store.o, "manifests", Arr(loop.manifests)))
         IN IF loop.threw
            THEN [indicatorSet |-> Obj(filled), outcome |-> "TypeError", store |-> after]
            ELSE [indicatorSet |-> Obj(WithValidationStatus(filled, result)),
                  outcome |-> "returned", store |-> after]

\* one call: the local indicatorSet when the call ends, how it ends, and the
\* manifest store as the call leaves it
generateIndicatorSet(store, result, buffer, tags, now) ==
    IF ~Truthy(store)
    THEN LET call == WithoutManifestStore(result, buffer, tags, now) IN
         [indicatorSet |-> call.indicatorSet, outcome |-> call.outcome, store |-> store]
    ELSE WithManifestStore(store, result, buffer, tags, now)

(***************************************************************************)
(* Inputs.  The manifest store, the validation result and the tag map come *)
(* from the validation library and the metadata reader; the sets below     *)
(* enumerate the shapes generateIndicatorSet reads.                        *)
(***************************************************************************)
SeqsUpTo(S, n) == UNION {[1..k -> S] : k \in 0..n}
\* the lists of at most n elements of S without a repeated element
DistinctSeqsUpTo(S, n) ==
    {s \in SeqsUpTo(S, n) : \A i, j \in DOMAIN s : i # j => s[i] # s[j]}

\* ---- status entries of the validation result
JumbfPrefix == <<"s","e","l","f","#","j","u","m","b","f","=","/","c","2","p","a","/","m","1","/">>
StatusEntry(code, url) ==
    Obj([code |-> Str(code), url |-> url, message |-> Str(<<"m","s","g">>), severity |-> Undef])
StatusEntries ==
    { StatusEntry(<<"c","l","a","i","m","S","i","g","n","a","t","u","r","e",".","v","a","l","i","d","a","t","e","d">>, Str(JumbfPrefix \o <<"c","2","p","a",".","s","i","g","n","a","t","u","r","e">>)),
      StatusEntry(<<"c","l","a","i","m","S","i","g","n","a","t","u","r","e",".","i","n","s","i","d","e","V","a","l","i","d","i","t","y">>, Str(JumbfPrefix \o <<"c","2","p","a",".","s","i","g","n","a","t","u","r","e">>)),
      StatusEntry(<<"s","i","g","n","i","n","g","C","r","e","d","e","n","t","i","a","l",".","t","r","u","s","t","e","d">>, Str(JumbfPrefix \o <<"c","2","p","a",".","s","i","g","n","a","t","u","r","e">>)),
      StatusEntry(<<"s","i","g","n","i","n","g","C","r","e","d","e","n","t","i","a","l",".","u","n","t","r","u","s","t","e","d">>, Undef),
      StatusEntry(<<"a","s","s","e","r","t","i","o","n",".","d","a","t","a","H","a","s","h",".","m","i","s","m","a","t","c","h">>,
                  Str(JumbfPrefix \o <<"c","2","p","a",".","a","s","s","e","r","t","i","o","n","s","/","c","2","p","a",".","a","c","t","i","o","n","s",".","v","2">>)),
      StatusEntry(<<"a","s","s","e","r","t","i","o","n",".","d","a","t","a","H","a","s","h",".","m","a","t","c","h">>,
                  Str(JumbfPrefix \o <<"c","2","p","a",".","a","s","s","e","r","t","i","o","n","s","/","c","2","p","a",".","h","a","s","h",".","d","a","t","a">>)),
      StatusEntry(<<"a","s","s","e","r","t","i","o","n",".","h","a","s","h",".","b","m","f","f",".","m","a","t","c","h">>,
                  Str(JumbfPrefix \o <<"c","2","p","a",".","a","s","s","e","r","t","i","o","n","s","/","c","2","p","a",".","h","a","s","h",".","b","m","f","f">>)),
      StatusEntry(<<"a","s","s","e","r","t","i","o","n",".","h","a","s","h","e","d","U","R","I",".","m","a","t","c","h">>,
                  Str(JumbfPrefix \o <<"c","2","p","a",".","a","s","s","e","r","t","i","o","n","s","/","c","2","p","a",".","a","c","t","i","o","n","s",".","v","2">>)),
      StatusEntry(<<"a","s","s","e","r","t","i","o","n",".","h","a","s","h","e","d","U","R","I",".","m","i","s","m","a","t","c","h">>, Undef),
      StatusEntry(<<"c","l","a","i","m",".","m","i","s","s","i","n","g">>, Str(<<>>)) }

ValidationResultOf(entries) ==
    Obj([isValid |-> Bool(entries # <<>>),
         error |-> Undef,
         validationErrors |-> Arr(<<>>),
         statusEntries |-> Arr(entries)])
\* the example of the documentation: one entry, a data-hash mismatch
ExampleResult ==
    ValidationResultOf(<<StatusEntry(<<"a","s","s","e","r","t","i","o","n",".","d","a","t","a","H","a","s","h",".","m","i","s","m","a","t","c","h">>,
                           Str(JumbfPrefix \o <<"c","2","p","a",".","a","s","s","e","r","t","i","o","n","s","/","c","2","p","a",".","a","c","t","i","o","n","s",".","v","2">>))>>)
ValidationResults ==
    {ValidationResultOf(entries) : entries \in SeqsUpTo(StatusEntries, MaxEntries)}
OtherResults ==
    { Obj([isValid |-> Bool(FALSE),
           error |-> Str(<<"b","a","d"," ","b","o","x">>),
           validationErrors |-> Arr(<<Str(<<"e","1">>), Obj([message |-> Str(<<"b","o","o","m">>)])>>),
           statusEntries |-> Arr(<<StatusEntry(<<"c","l","a","i","m",".","m","i","s","s","i","n","g">>, Undef)>>)]),
      Obj([isValid |-> Undef,
           error |-> Null,
           validationErrors |-> Undef,
           statusEntries |-> Arr(<<Obj([code |-> Str(<<"c","l","a","i","m","S","i","g","n","a","t","u","r","e",".","v","a","l","i","d","a","t","e","d">>),
                                         url |-> Str(<<"a","/","b">>),
                                         message |-> Undef,
                                         severity |-> Str(<<"e","r","r","o","r">>)])>>)]) }

\* ---- assertions
Assertions ==
    { \* a hash at the top level of the assertion
      Obj([uuid |-> Str(<<"u","1">>), sourceBox |-> Obj([hash |-> U8(<<9>>)]),
           componentType |-> Num(1), label |-> Str(<<"c","2","p","a",".","h","a","s","h",".","d","a","t","a">>),
           content |-> Obj([hash |-> U8(<<1, 2, 3>>)]),
           hash |-> U8(<<1, 2, 3>>), pad |-> U8(<<0>>), name |-> Str(<<"j","u","m","b","f">>)]),
      \* a hash one level down, as an array of numbers
      Obj([uuid |-> Str(<<"u","2">>), label |-> Str(<<"c","2","p","a",".","i","n","g","r","e","d","i","e","n","t">>),
           c2pa_manifest |-> Obj([url |-> Str(<<"x">>), hash |-> Arr(<<Num(255), Num(256)>>)])]),
      \* a hash inside an array of objects
      Obj([label |-> Str(<<"c","2","p","a",".","a","c","t","i","o","n","s",".","v","2">>),
           actions |-> Arr(<<Obj([action |-> Str(<<"c","2","p","a",".","c","r","e","a","t","e","d">>),
                                  parameters |-> Obj([hash |-> Buf(<<77, 97>>)])])>>)]),
      \* the same label as the first one, other contents
      Obj([label |-> Str(<<"c","2","p","a",".","h","a","s","h",".","d","a","t","a">>), hash |-> Str(<<"A","Q","I","D">>),
           exclusions |-> Arr(<<>>)]),
      \* no label
      Obj([uuid |-> Str(<<"u","5">>), data |-> Obj([hash |-> U8(<<>>), size |-> Num(0)]),
           extra |-> Null]),
      \* an empty label
      Obj([label |-> Str(<<>>), value |-> Num(0)]) }

AssertionStores ==
    {Undef, EmptyObj, Obj([assertions |-> Arr(<<>>)])}
    \cup {Obj([assertions |-> Arr(list)]) :
            list \in SeqsUpTo(Assertions, MaxAssertions) \ {<<>>}}

\* ---- claims
HashedURIs ==
    { Obj([uri |-> Str(JumbfPrefix \o <<"c","2","p","a",".","a","s","s","e","r","t","i","o","n","s","/","c","2","p","a",".","a","c","t","i","o","n","s",".","v","2">>),
           hash |-> U8(<<250, 251, 252, 253>>), alg |-> Str(<<"s","h","a","2","5","6">>)]),
      Obj([uri |-> Str(<<"a">>), hash |-> Arr(<<Num(0), Num(300)>>), alg |-> Null]),
      Obj([uri |-> Undef, hash |-> Buf(<<5>>)]) }
ClaimOf(version, info, created) ==
    Obj([version |-> version, title |-> Str(<<"p","h","o","t","o",".","p","n","g">>), instanceID |-> Str(<<"x","m","p",":","i","i","d",":","1">>),
         claimGeneratorInfo |-> info, claimGeneratorName |-> Str(<<"c","2","p","a","-","t","s">>),
         defaultAlgorithm |-> Str(<<"s","h","a","2","5","6">>),
         signatureRef |-> Str(JumbfPrefix \o <<"c","2","p","a",".","s","i","g","n","a","t","u","r","e">>),
         assertions |-> created, gatheredAssertions |-> Undef,
         redactedAssertions |-> Arr(<<>>)])
ClaimVersions == {Undef, Null, Num(0), Num(1), Num(2), Str(<<"1">>)}
GeneratorInfos ==
    { Undef, Str(<<"g","e","n"," ","1",".","0">>),
      Obj([name |-> Str(<<"g","e","n">>),
           icon |-> Obj([url |-> Str(<<"i","c","o","n">>), hash |-> U8(<<1, 2>>)])]) }
HashedURILists ==
    {Undef} \cup {Arr(list) : list \in SeqsUpTo(HashedURIs, MaxHashedURIs)}
DefaultClaim == ClaimOf(Num(1), Undef, Arr(<<>>))
Claims ==
    {Undef, EmptyObj}
    \cup {ClaimOf(version, Undef, Arr(<<>>)) : version \in ClaimVersions}
    \cup {ClaimOf(Num(1), info, Arr(<<>>)) : info \in GeneratorInfos}
    \cup {ClaimOf(Num(2), Undef, created) : created \in HashedURILists}

\* ---- signatures
Certificate ==
    Obj([serialNumber |-> Str(<<"0","A",":","1","B">>),
         issuer |-> Str(<<"C","N","=","R","o","o","t"," ","C","A",","," ","O","=","E","x","a","m","p","l","e","=","C","o","r","p"," ",",","C","=","U","S">>),
         subject |-> Str(<<"C","N","=","S","i","g","n","e","r",",","b","o","g","u","s",",","=","x",",","O","=","A",",","O","=","B">>),
         notBefore |-> Str(<<"2","0","2","5","-","0","1","-","0","1">>), notAfter |-> Undef])
SignatureDatas ==
    { Undef,
      Obj([certificate |-> Certificate]),
      Obj([algorithm |-> Obj([coseIdentifier |-> Num(-7)]), certificate |-> Certificate]),
      Obj([algorithm |-> Obj([coseIdentifier |-> Num(-8)])]),
      Obj([algorithm |-> Obj([coseIdentifier |-> Num(5)]),
           certificate |-> Obj([issuer |-> Num(3)])]),
      Obj([algorithm |-> EmptyObj, certificate |-> Null]) }
DefaultSignatureData ==
    Obj([algorithm |-> Obj([coseIdentifier |-> Num(-7)]), certificate |-> Certificate])

\* ---- manifests and stores
ManifestOf(label, claim, signatureData, assertions) ==
    Obj([label |-> label, claim |-> claim,
         signature |-> Obj([signatureData |-> signatureData]),
         assertions |-> assertions])
DefaultAssertions ==
    Obj([assertions |-> Arr(<<
        Obj([uuid |-> Str(<<"u","3">>), label |-> Str(<<"c","2","p","a",".","a","c","t","i","o","n","s",".","v","2">>),
             actions |-> Arr(<<Obj([action |-> Str(<<"c","2","p","a",".","c","r","e","a","t","e","d">>)])>>)])>>)])
DefaultManifest ==
    ManifestOf(Str(<<"u","r","n",":","c","2","p","a",":","m","1">>), DefaultClaim, DefaultSignatureData, DefaultAssertions)
Manifests ==
    {ManifestOf(label, DefaultClaim, DefaultSignatureData, DefaultAssertions) :
        label \in {Undef, Str(<<>>), Str(<<"u","r","n",":","c","2","p","a",":","m","2">>)}}
    \cup {ManifestOf(Str(<<"u","r","n",":","c","2","p","a",":","m","1">>), claim, DefaultSignatureData, DefaultAssertions) :
            claim \in Claims}
    \cup {ManifestOf(Str(<<"u","r","n",":","c","2","p","a",":","m","1">>), DefaultClaim, sd, DefaultAssertions) :
            sd \in SignatureDatas}
    \cup {ManifestOf(Str(<<"u","r","n",":","c","2","p","a",":","m","1">>), DefaultClaim, DefaultSignatureData, assertions) :
            assertions \in AssertionStores}
StoreOf(manifests) == Obj([manifests |-> Arr(manifests)])
DefaultStore == StoreOf(<<DefaultManifest>>)
\* one manifest of every shape, and stores of several manifests
ManifestStores ==
    {StoreOf(<<>>)}
    \cup {StoreOf(<<m>>) : m \in Manifests}
    \cup {StoreOf(list) :
            list \in SeqsUpTo({DefaultManifest,
                               ManifestOf(Undef, ClaimOf(Num(2), Undef, Undef), Undef,
                                          Obj([assertions |-> Arr(<<
                                              Obj([label |-> Str(<<"c","2","p","a",".","i","n","g","r","e","d","i","e","n","t">>),
                                                   thumbnail |-> Obj([hash |-> U8(<<3>>)])])>>)])),
                               ManifestOf(Str(<<"u","r","n",":","c","2","p","a",":","m","3">>), Undef, DefaultSignatureData,
                                          Undef)},
                              MaxManifests)}

\* ---- file buffers and the metadata reader
DefaultBuffer == Buf(<<137, 80, 78, 71>>)
FileBuffers == {Null, Undef, Buf(<<>>), Buf(<<0>>), Buf(<<255, 216, 255>>), DefaultBuffer}
ExifTag(key, tag) == [key |-> key, tag |-> tag]
ExifTagSet ==
    { ExifTag(<<"I","m","a","g","e"," ","W","i","d","t","h">>, Obj([value |-> Num(640), description |-> Str(<<"6","4","0","p","x">>)])),
      ExifTag(<<"I","m","a","g","e"," ","H","e","i","g","h","t">>, Obj([value |-> Num(480)])),
      ExifTag(<<"B","i","t"," ","D","e","p","t","h">>, Obj([value |-> Num(8)])),
      ExifTag(<<"C","o","l","o","r"," ","T","y","p","e">>, Obj([value |-> Str(<<"R","G","B">>)])),
      ExifTag(<<"C","o","m","p","r","e","s","s","i","o","n">>, Obj([value |-> Num(0)])),
      ExifTag(<<"F","i","l","t","e","r">>, Obj([value |-> Str(<<"A","d","a","p","t","i","v","e">>)])),
      ExifTag(<<"I","n","t","e","r","l","a","c","e">>, Obj([value |-> Str(<<>>)])),
      ExifTag(<<"i","n","t","e","r","l","a","c","e">>, Obj([value |-> Str(<<"N","o","n","i","n","t","e","r","l","a","c","e","d">>)])),
      ExifTag(<<"F","i","l","e","T","y","p","e">>, Obj([value |-> Str(<<"p","n","g">>)])),
      ExifTag(<<"i","m","a","g","e","_","w","i","d","t","h">>, Obj([value |-> Num(1)])),
      ExifTag(<<"I","C","C"," ","D","e","s","c","r","i","p","t","i","o","n">>, Obj([value |-> Str(<<"s","R","G","B">>)])),
      ExifTag(<<"J","F","I","F"," ","V","e","r","s","i","o","n">>, Obj([value |-> Num(257)])),
      ExifTag(<<"D","a","t","e","/","T","i","m","e"," ","_"," ","1">>, Obj([value |-> Str(<<"2","0","2","5">>)])),
      ExifTag(<<"T","h","u","m","b","n","a","i","l">>, Obj([image |-> U8(<<1>>)])),
      ExifTag(<<"S","o","f","t","w","a","r","e">>, Str(<<"g","i","m","p">>)),
      ExifTag(<<"s","o","u","r","c","e">>, Obj([value |-> Str(<<"c","a","m","e","r","a">>)])) }
TagsOf(entries) == [t |-> "tags", entries |-> entries]
Throws(message) == [t |-> "throws", message |-> message]
DefaultTags ==
    TagsOf(<<ExifTag(<<"I","m","a","g","e"," ","W","i","d","t","h">>, Obj([value |-> Num(640), description |-> Str(<<"6","4","0","p","x">>)])),
             ExifTag(<<"S","o","f","t","w","a","r","e">>, Obj([value |-> Str(<<"g","i","m","p">>)]))>>)
\* a tag map has each key once; the list is its key order
TagMaps ==
    {TagsOf(entries) : entries \in
        {s \in SeqsUpTo(ExifTagSet, MaxTags) :
            \A i, j \in DOMAIN s : i # j => s[i].key # s[j].key}}
ExifOutcomes == TagMaps \cup {Throws(<<"I","n","v","a","l","i","d"," ","i","m","a","g","e"," ","f","o","r","m","a","t">>)}
\* new Date().toISOString() at two different times
Clock == {<<"2","0","2","5","-","0","6","-","0","1","T","0","0",":","0","0",":","0","0",".","0","0","0","Z">>, <<"2","0","2","5","-","0","6","-","0","1","T","0","0",":","0","0",":","0","1",".","0","0","0","Z">>}

(***************************************************************************)
(* processManifestStore (processManifest.js:49-159).  The asset readers,   *)
(* the JUMBF parser, the manifest store reader and validate are c2pa-ts    *)
(* collaborators: `asset` says what each of them does for the file.        *)
(***************************************************************************)
S_not_applicable == <<"n","o","t","_","a","p","p","l","i","c","a","b","l","e">>
S_no_manifest == <<"n","o","_","m","a","n","i","f","e","s","t">>
S_error == <<"e","r","r","o","r">>
S_Unsupported == <<"U","n","s","u","p","p","o","r","t","e","d"," ","f","i","l","e"," ","f","o","r","m","a","t"," ","f","o","r"," ","C","2","P","A"," ","p","r","o","c","e","s","s","i","n","g">>
S_NoManifestFound == <<"N","o"," ","m","a","n","i","f","e","s","t"," ","f","o","u","n","d">>
S_notFound == <<"n","o","t"," ","f","o","u","n","d">>
\* the message of the TypeError raised by reading a property of undefined
S_CannotRead == <<"C","a","n","n","o","t"," ","r","e","a","d"," ","p","r","o","p","e","r","t","i","e","s"," ","o","f"," ","u","n","d","e","f","i","n","e","d">>
FormatName == [JPEG |-> <<"J","P","E","G">>, PNG |-> <<"P","N","G">>, BMFF |-> <<"B","M","F","F">>]

\* info.k = v
With(info, k, v) == Obj(ObjSet(info.o, k, v))
IsThrows(x) == x.t = "throws"

\* lines 50-58
InitialC2paInfo ==
    Obj([hasManifest |-> Bool(FALSE),
         manifestCount |-> Num(0),
         validationStatus |-> Str(S_not_applicable),
         manifests |-> Arr(<<>>),
         error |-> Null,
         fileFormat |-> Str(S_unknown),
         indicatorSet |-> Null])

\* lines 63-72: the first reader that accepts the bytes, "none" without one
DetectedFormat(canRead) ==
    IF "JPEG" \in canRead THEN "JPEG"
    ELSE IF "PNG" \in canRead THEN "PNG"
    ELSE IF "BMFF" \in canRead THEN "BMFF"
    ELSE "none"

\* the unsupported format reported as a failure of the run
UnsupportedAsError(info) ==
    With(With(info, "error", Str(S_Unsupported)), "validationStatus", Str(S_error))
\* lines 73-74
Unsupported(info) == With(info, "error", Str(S_Unsupported))

\* lines 148-156
OuterCatch(info, message) ==
    IF Includes(message, S_NoManifestFound) \/ Includes(message, S_notFound)
    THEN With(info, "validationStatus", Str(S_no_manifest))
    ELSE With(With(info, "error", Str(message)), "validationStatus", Str(S_error))

\* the inner failure handled like the outer one
InnerCatchAsError(info, message) == OuterCatch(info, message)
\* lines 139-146
InnerCatch(info, message) ==
    With(info, "validationStatus",
         Obj([isValid |-> Bool(FALSE), error |-> Str(message), validationErrors |-> Arr(<<>>)]))

\* lines 131-137
SafeValidation(result) ==
    LET errors == Get(result, "validationErrors") IN
    Obj([isValid |-> Or(Get(result, "isValid"), Bool(FALSE)),
         error |-> Or(Get(result, "error"), Null),
         validationErrors |->
             IF errors.t = "array"
             THEN Arr([i \in DOMAIN errors.a |-> ErrToString(errors.a[i])])
             ELSE Arr(<<>>)])

\* the object pushed at lines 12-38 and at lines 97-124 for one manifest;
\* a TypeError when manifest.assertions or manifest.signature is missing
FlatManifest(manifest) ==
    LET assertions == Get(manifest, "assertions")
        signature == Get(manifest, "signature")
        claim == Get(manifest, "claim")
    IN IF IsNullish(assertions) \/ IsNullish(signature) THEN Thrown
       ELSE LET list == Get(assertions, "assertions")
                signatureData == Get(signature, "signatureData")
                certificate == OptGet(signatureData, "certificate")
            IN Obj([label |-> Or(Get(manifest, "label"), Null),
                    assertionCount |-> Or(Get(manifest, "assertionCount"), Num(0)),
                    assertions |->
                        IF Truthy(list)
                        THEN Arr([i \in DOMAIN list.a |->
                                     Obj([label |-> Or(Get(list.a[i], "label"), Null)])])
                        ELSE Arr(<<>>),
                    claim |-> Obj([
                        version |-> Or(OptGet(claim, "version"), Null),
                        title |-> Or(OptGet(claim, "title"), Null),
                        instanceID |-> Or(OptGet(claim, "instanceID"), Null),
                        claimGenerator |->
                            IF Truthy(OptGet(claim, "claimGeneratorInfo"))
                            THEN Get(claim, "claimGeneratorInfo")
                            ELSE Or(OptGet(claim, "claimGeneratorName"), Null),
                        defaultAlgorithm |-> Or(OptGet(claim, "defaultAlgorithm"), Null),
                        signatureRef |-> Or(OptGet(claim, "signatureRef"), Null)]),
                    signature |-> Obj([
                        algorithm |-> Or(OptGet(signatureData, "algorithm"), Null),
                        certificate |-> Obj([
                            issuer |-> Or(OptGet(certificate, "issuer"), Null),
                            subject |-> Or(OptGet(certificate, "subject"), Null),
                            serialNumber |-> Or(OptGet(certificate, "serialNumber"), Null),
                            notBefore |-> Or(OptGet(certificate, "notBefore"), Null),
                            notAfter |-> Or(OptGet(certificate, "notAfter"), Null)])])])

\* the loops of lines 11-39 and 96-125 from manifest i on: the entries pushed
\* and whether an entry threw
RECURSIVE FlatLoop(_, _, _)
FlatLoop(manifests, i, pushed) ==
    IF i > Len(manifests) THEN [pushed |-> pushed, threw |-> FALSE]
    ELSE LET entry == FlatManifest(manifests[i]) IN
         IF IsThrown(entry) THEN [pushed |-> pushed, threw |-> TRUE]
         ELSE FlatLoop(manifests, i + 1, Append(pushed, entry))

\* lines 6-42
getIndicatorSet(manStore) ==
    LET loop == FlatLoop(Get(manStore, "manifests").a, 1, <<>>) IN
    IF loop.threw THEN Thrown ELSE Obj([manifests |-> Arr(loop.pushed)])

(***************************************************************************)
(* processFile (cli.js:41-160): the pure parts.  A file is the record      *)
(* [exists, name, ext, content]; its size is the length of its content.    *)
(***************************************************************************)
S_cwd == <<"/","w","o","r","k","/">>
S_json == <<".","j","s","o","n">>
S_indicatorsJson == <<"-","i","n","d","i","c","a","t","o","r","s",".","j","s","o","n">>
S_InputFileDoesNotExist == <<"I","n","p","u","t"," ","f","i","l","e"," ","d","o","e","s"," ","n","o","t"," ","e","x","i","s","t",":"," ">>
TextExtensions == {<<".","t","x","t">>, <<".","m","d">>, <<".","j","s","o","n">>, <<".","x","m","l">>, <<".","h","t","m","l">>, <<".","c","s","s">>, <<".","j","s">>, <<".","t","s">>}

\* line 51: path.resolve(inputFile)
inputPath(file) == S_cwd \o file.name \o file.ext
\* line 55
isTextFile(file) == [i \in DOMAIN file.ext |-> ToLowerCase(file.ext[i])] \in TextExtensions
\* lines 58-62
outputFileName(file) == file.name \o S_json
indicatorSetFileName(file) == file.name \o S_indicatorsJson

\* line 94: fileContent.split('\n').length
lineCount(text) == Len(Split(text, "\n"))
\* line 96: the words of the trimmed text between runs of white space
wordCount(text) ==
    Cardinality({i \in DOMAIN text :
        /\ ~(IsSpace(text[i]) \/ text[i] = "\n")
        /\ i = 1 \/ IsSpace(text[i - 1]) \/ text[i - 1] = "\n"})

\* lines 91-101: the content section of the output
contentSection(file, info) ==
    IF Truthy(info) THEN EmptyObj
    ELSE IF isTextFile(file)
    THEN Obj([rawContent |-> Str(file.content),
              lineCount |-> Num(lineCount(file.content)),
              characterCount |-> Num(Len(file.content)),
              wordCount |-> Num(wordCount(file.content))])
    ELSE Obj([type |-> Str(<<"b","i","n","a","r","y">>),
              size |-> Num(Len(file.content)),
              note |-> Str(<<"B","i","n","a","r","y"," ","f","i","l","e"," ","c","o","n","t","e","n","t"," ","n","o","t"," ","d","i","s","p","l","a","y","e","d">>)])

\* lines 83-107
outputData(file, info, now) ==
    Obj([metadata |-> Obj([inputFile |-> Str(inputPath(file)),
                           fileName |-> Str(file.name \o file.ext),
                           fileSize |-> Num(Len(file.content)),
                           processedAt |-> Str(now),
                           fileExtension |-> Str(file.ext)]),
         content |-> contentSection(file, info),
         c2pa |-> info,
         processing |-> Obj([status |-> Str(<<"c","o","m","p","l","e","t","e","d">>), version |-> Str(<<"1",".","0",".","0">>)])])

\* lines 152-157
FallbackIndicatorSet ==
    Obj(("@context" :> Arr(<<Str(S_vocab)>>))
        @@ [manifests |-> Arr(<<>>), content |-> EmptyObj, metadata |-> EmptyObj])

\* lines 110-112 and 128-130: the text written is that of JSON.stringify, kept as
\* the value it prints and whether it is indented
Stringified(value, pretty) == [pretty |-> pretty, value |-> value]
\* fs.writeFile(path, text)
WriteFile(d, name, text) == [d EXCEPT !.files = ObjSet(@, name, text)]
\* console.log / console.error of one line
Line(out, line, args) == [out |-> out, line |-> line, args |-> args]

\* lines 116-124
ProcessedLines(file, data) ==
    << Line("log", "File processed successfully!", <<>>),
       Line("log", "Input:", <<Str(inputPath(file))>>),
       Line("log", "Output:", <<Str(outputFileName(file))>>),
       IF isTextFile(file)
       THEN Line("log", "Stats: lines, words, characters",
                 <<Get(Get(data, "content"), "lineCount"),
                   Get(Get(data, "content"), "wordCount"),
                   Get(Get(data, "content"), "characterCount")>>)
       ELSE Line("log", "Stats: Binary file, bytes", <<Get(Get(data, "content"), "size")>>) >>

\* lines 140-159: what the last part of processFile prints and writes
Report(file, opts, info, d) ==
    IF Truthy(info) /\ Truthy(Get(info, "hasManifestStore"))
    THEN LET found == Line("log", "C2PA: Found manifest(s), Valid:",
                           <<Get(info, "manifestCount"),
                             Get(Get(info, "validationStatus"), "isValid")>>)
         IN IF opts.set /\ Truthy(Get(info, "indicatorSet"))
            THEN [disk |-> WriteFile(d, indicatorSetFileName(file),
                                     Stringified(Get(info, "indicatorSet"), opts.pretty)),
                  lines |-> <<found, Line("log", "Trust Indicator Set:",
                                          <<Str(indicatorSetFileName(file))>>)>>]
            ELSE [disk |-> d, lines |-> <<found>>]
    ELSE IF Truthy(info) /\ Get(info, "manifestCount") = Num(0)
    THEN [disk |-> d, lines |-> <<Line("log", "C2PA: No manifests found in file", <<>>)>>]
    ELSE IF Truthy(info) /\ Truthy(Get(info, "error"))
    THEN [disk |-> d, lines |-> <<Line("log", "C2PA: Error -", <<Get(info, "error")>>)>>]
    ELSE IF opts.set
    THEN [disk |-> WriteFile(d, indicatorSetFileName(file),
                             Stringified(FallbackIndicatorSet, opts.pretty)),
          lines |-> <<Line("log", "Trust Indicator Set:",
                           <<Str(indicatorSetFileName(file))>>)>>]
    ELSE [disk |-> d, lines |-> <<>>]

(***************************************************************************)
(* Inputs of a command line run.                                           *)
(***************************************************************************)
File(exists, name, ext, content) ==
    [exists |-> exists, name |-> name, ext |-> ext, content |-> content]
DefaultFile == File(TRUE, <<"p","h","o","t","o">>, <<".","p","n","g">>, <<137, 80, 78, 71>>)
BinaryFiles ==
    { DefaultFile,
      File(TRUE, <<"c","l","i","p">>, <<".","m","p","4">>, <<0, 0, 0, 24>>),
      File(TRUE, <<"e","m","p","t","y">>, <<".","J","P","G">>, <<>>),
      File(TRUE, <<"b","l","o","b">>, <<>>, <<1>>) }
TextFiles ==
    { File(TRUE, <<"n","o","t","e","s">>, <<".","t","x","t">>, <<"a", " ", "b", "\n", " ", "c">>),
      File(TRUE, <<"R","E","A","D","M","E">>, <<".","M","D">>, <<>>) }
MissingFiles == {File(FALSE, <<"g","o","n","e">>, <<".","p","n","g">>, <<>>), File(FALSE, <<"g","o","n","e">>, <<".","t","x","t">>, <<>>)}
Options == [set : BOOLEAN, pretty : BOOLEAN]

Ok == [t |-> "ok"]
Asset(canRead, construct, jumbf, superBox, manStore, validation) ==
    [canRead |-> canRead, construct |-> construct, jumbf |-> jumbf,
     superBox |-> superBox, manStore |-> manStore, validation |-> validation]
DefaultAsset == Asset({"PNG"}, Ok, U8(<<1, 2>>), Ok, DefaultStore, ExampleResult)
\* the stores ManifestStore.read returns: no manifest, and lists of a complete
\* manifest and of one without an assertions collection
ReadStores ==
    {StoreOf(list) :
        list \in SeqsUpTo({DefaultManifest,
                           ManifestOf(Str(<<"u","r","n",":","c","2","p","a",":","m","3">>), Undef, Undef, Undef)},
                          MaxManifests)}
DetectionAssets ==
    {Asset(canRead, construct, Undef, Ok, DefaultStore, ExampleResult) :
        canRead \in {{}, {"JPEG"}, {"PNG"}, {"BMFF"}, {"JPEG", "BMFF"}},
        construct \in {Ok, Throws(<<"I","n","v","a","l","i","d"," ","m","a","r","k","e","r">>)}}
ExtractionAssets ==
    {Asset({"JPEG"}, Ok, jumbf, Ok, DefaultStore, ExampleResult) :
        jumbf \in {Undef, Null, U8(<<>>), Throws(S_NoManifestFound),
                   Throws(<<"J","U","M","B","F"," ","b","o","x"," ","n","o","t"," ","f","o","u","n","d"," ","i","n"," ","f","i","l","e">>), Throws(<<"T","r","u","n","c","a","t","e","d"," ","f","i","l","e">>)}}
ReadingAssets ==
    {Asset({"PNG"}, Ok, U8(<<1, 2>>), superBox, manStore, validation) :
        superBox \in {Ok, Throws(<<"I","n","v","a","l","i","d"," ","J","U","M","B","F"," ","b","o","x">>)},
        manStore \in ReadStores \cup {Throws(<<"B","a","d"," ","m","a","n","i","f","e","s","t"," ","s","t","o","r","e">>)},
        validation \in {ExampleResult, Throws(<<"v","a","l","i","d","a","t","i","o","n"," ","f","a","i","l","e","d">>)} \cup OtherResults}
Assets == DetectionAssets \cup ExtractionAssets \cup ReadingAssets
EmptyDisk == [outputDir |-> FALSE, files |-> NoProps]

\* the state in which a run starts
RunStarts(file, opts, a) ==
    /\ inputFile = file
    /\ options = opts
    /\ asset = a
    /\ pc = "processFile"
    /\ c2paInfo = Null
    /\ calls = <<>>
    /\ console = <<>>
    /\ disk \in {EmptyDisk, [EmptyDisk EXCEPT !.outputDir = TRUE]}
    /\ exitCode = "running"

(***************************************************************************)
(* The calls.  Each scenario family varies one argument over its whole set *)
(* and takes the others from a few fixed values.                           *)
(***************************************************************************)
Scenario(store, result, buffer, tags) ==
    [store |-> store, result |-> result, buffer |-> buffer, tags |-> tags]
StatusScenarios ==
    {Scenario(store, result, DefaultBuffer, DefaultTags) :
        store \in {DefaultStore, StoreOf(<<DefaultManifest, DefaultManifest>>)},
        result \in ValidationResults \cup OtherResults}
StoreScenarios ==
    {Scenario(store, result, buffer, tags) :
        store \in {Null} \cup ManifestStores,
        result \in {Null, ExampleResult, ValidationResultOf(<<>>)},
        buffer \in {Null, DefaultBuffer},
        tags \in {DefaultTags, Throws(<<"I","n","v","a","l","i","d"," ","i","m","a","g","e"," ","f","o","r","m","a","t">>)}}
MetadataScenarios ==
    {Scenario(sr[1], sr[2], DefaultBuffer, tags) :
        sr \in {<<Null, Null>>, <<DefaultStore, ExampleResult>>},
        tags \in ExifOutcomes}
    \cup {Scenario(sr[1], sr[2], buffer, tags) :
        sr \in {<<Null, Null>>, <<Null, ExampleResult>>, <<DefaultStore, ExampleResult>>},
        buffer \in FileBuffers,
        tags \in {DefaultTags, Throws(<<"I","n","v","a","l","i","d"," ","i","m","a","g","e"," ","f","o","r","m","a","t">>)}}
Scenarios == StatusScenarios \cup StoreScenarios \cup MetadataScenarios

Init ==
    \E sc \in Scenarios :
        /\ manifestStore = sc.store
        /\ validationResult = sc.result
        /\ fileBuffer = sc.buffer
        /\ exifTags = sc.tags
        /\ indicatorSet = Null
        /\ outcome = "pending"
        /\ RunStarts(DefaultFile, [set |-> FALSE, pretty |-> FALSE], DefaultAsset)
        /\ disk = EmptyDisk

\* a call generateIndicatorSet(manifestStore, validationResult, fileBuffer)
GenerateIndicatorSet ==
    \E now \in Clock :
        LET call == generateIndicatorSet(manifestStore, validationResult, fileBuffer,
                                         exifTags, now)
        IN /\ indicatorSet' = call.indicatorSet
           /\ outcome' = call.outcome
           /\ manifestStore' = call.store
           /\ UNCHANGED <<validationResult, fileBuffer, exifTags>>
           /\ UNCHANGED cliVars

Next == GenerateIndicatorSet

Spec == Init /\ [][Next]_vars

(***************************************************************************)
(* A command line run: processFile (cli.js:32-160) calling                 *)
(* processManifestStore (processManifest.js:49-159).  pc is the position   *)
(* of the run; the steps are cut where the code awaits or calls a          *)
(* collaborator.  The file system calls themselves are taken to succeed.   *)
(***************************************************************************)
\* the output directory ensured before the existence check
ProcessFileBeginEnsureFirst ==
    /\ pc = "processFile"
    /\ disk' = [disk EXCEPT !.outputDir = TRUE]
    /\ IF ~inputFile.exists
       THEN /\ console' = Append(console,
                   Line("error", "Error:",
                        <<Str(S_InputFileDoesNotExist \o inputFile.name \o inputFile.ext)>>))
            /\ exitCode' = 1
            /\ pc' = "done"
       ELSE /\ pc' = IF isTextFile(inputFile) THEN "write" ELSE "detect"
            /\ UNCHANGED <<console, exitCode>>
    /\ UNCHANGED <<inputFile, options, asset, c2paInfo, calls>>
    /\ UNCHANGED setVars

\* cli.js:42-79 and 33-38: the existence check, ensureDir, stat and the read
ProcessFileBegin ==
    /\ pc = "processFile"
    /\ IF ~inputFile.exists
       THEN /\ console' = Append(console,
                   Line("error", "Error:",
                        <<Str(S_InputFileDoesNotExist \o inputFile.name \o inputFile.ext)>>))
            /\ exitCode' = 1
            /\ pc' = "done"
            /\ UNCHANGED disk
       ELSE /\ disk' = [disk EXCEPT !.outputDir = TRUE]
            /\ pc' = IF isTextFile(inputFile) THEN "write" ELSE "detect"
            /\ UNCHANGED <<console, exitCode>>
    /\ UNCHANGED <<inputFile, options, asset, c2paInfo, calls>>
    /\ UNCHANGED setVars

\* processManifest.js:50-75: the result object and the choice of the reader
DetectAsset ==
    /\ pc = "detect"
    /\ LET format == DetectedFormat(asset.canRead) IN
       IF format = "none"
       THEN /\ c2paInfo' = Unsupported(InitialC2paInfo)
            /\ pc' = "write"
       ELSE IF IsThrows(asset.construct)
       THEN /\ c2paInfo' = OuterCatch(InitialC2paInfo, asset.construct.message)
            /\ pc' = "write"
       ELSE /\ c2paInfo' = With(InitialC2paInfo, "fileFormat", Str(FormatName[format]))
            /\ pc' = "extract"
    /\ UNCHANGED <<inputFile, options, asset, calls, console, disk, exitCode>>
    /\ UNCHANGED setVars

\* processManifest.js:78-81
ExtractJumbf ==
    /\ pc = "extract"
    /\ calls' = Append(calls, "getManifestJUMBF")
    /\ IF IsThrows(asset.jumbf)
       THEN /\ c2paInfo' = OuterCatch(c2paInfo, asset.jumbf.message)
            /\ pc' = "write"
       ELSE IF Truthy(asset.jumbf) /\ Len(asset.jumbf.bytes) > 0
       THEN /\ c2paInfo' = With(With(c2paInfo, "hasManifest", Bool(TRUE)),
                                "manifestCount", Num(1))
            /\ pc' = "read"
       ELSE /\ pc' = "write"
            /\ UNCHANGED c2paInfo
    /\ UNCHANGED <<inputFile, options, asset, console, disk, exitCode>>
    /\ UNCHANGED setVars

\* processManifest.js:85-128: the container is deserialized, the store is read
\* and summarized, and in flat mode validate is called
ReadManifestStore ==
    /\ pc = "read"
    /\ IF IsThrows(asset.superBox)
       THEN /\ calls' = Append(calls, "SuperBox.fromBuffer")
            /\ c2paInfo' = InnerCatch(c2paInfo, asset.superBox.message)
            /\ pc' = "write"
       ELSE IF IsThrows(asset.manStore)
       THEN /\ calls' = calls \o <<"SuperBox.fromBuffer", "ManifestStore.read">>
            /\ c2paInfo' = InnerCatch(c2paInfo, asset.manStore.message)
            /\ pc' = "write"
       ELSE LET manifests == Get(asset.manStore, "manifests").a
                counted == With(c2paInfo, "manifestCount", Num(Len(manifests)))
            IN IF options.set
               THEN LET set == getIndicatorSet(asset.manStore) IN
                    /\ calls' = calls \o <<"SuperBox.fromBuffer", "ManifestStore.read">>
                    /\ c2paInfo' = IF IsThrown(set) THEN InnerCatch(counted, S_CannotRead)
                                   ELSE With(counted, "indicatorSet", set)
                    /\ pc' = "write"
               ELSE LET loop == FlatLoop(manifests, 1, <<>>)
                        pushed == With(counted, "manifests", Arr(loop.pushed))
                    IN IF loop.threw
                       THEN /\ calls' = calls \o <<"SuperBox.fromBuffer", "ManifestStore.read">>
                            /\ c2paInfo' = InnerCatch(pushed, S_CannotRead)
                            /\ pc' = "write"
                       ELSE /\ calls' = calls \o <<"SuperBox.fromBuffer", "ManifestStore.read",
                                                   "validate">>
                            /\ c2paInfo' = pushed
                            /\ pc' = "validate"
    /\ UNCHANGED <<inputFile, options, asset, console, disk, exitCode>>
    /\ UNCHANGED setVars

\* processManifest.js:128-146: the awaited validate settles
AwaitValidate ==
    /\ pc = "validate"
    /\ c2paInfo' = IF IsThrows(asset.validation)
                   THEN InnerCatch(c2paInfo, asset.validation.message)
                   ELSE With(c2paInfo, "validationStatus", SafeValidation(asset.validation))
    /\ pc' = "write"
    /\ UNCHANGED <<inputFile, options, asset, calls, console, disk, exitCode>>
    /\ UNCHANGED setVars

\* cli.js:83-124: the main output is written and reported
WriteOutput ==
    /\ pc = "write"
    /\ \E now \in Clock :
          LET data == outputData(inputFile, c2paInfo, now) IN
          /\ disk' = WriteFile(disk, outputFileName(inputFile),
                               Stringified(data, options.pretty))
          /\ console' = console \o ProcessedLines(inputFile, data)
    /\ pc' = "report"
    /\ UNCHANGED <<inputFile, options, asset, c2paInfo, calls, exitCode>>
    /\ UNCHANGED setVars

\* cli.js:140-159, and the process ends
ReportC2pa ==
    /\ pc = "report"
    /\ LET report == Report(inputFile, options, c2paInfo, disk) IN
       /\ disk' = report.disk
       /\ console' = console \o report.lines
    /\ pc' = "done"
    /\ exitCode' = 0
    /\ UNCHANGED <<inputFile, options, asset, c2paInfo, calls>>
    /\ UNCHANGED setVars

CliInit ==
    /\ manifestStore = Null
    /\ validationResult = Null
    /\ fileBuffer = Null
    /\ exifTags = DefaultTags
    /\ indicatorSet = Null
    /\ outcome = "pending"
    /\ \E opts \in Options :
          \/ \E file \in BinaryFiles, a \in Assets : RunStarts(file, opts, a)
          \/ \E file \in TextFiles \cup MissingFiles : RunStarts(file, opts, DefaultAsset)

CliNext ==
    \/ ProcessFileBegin
    \/ DetectAsset
    \/ ExtractJumbf
    \/ ReadManifestStore
    \/ AwaitValidate
    \/ WriteOutput
    \/ ReportC2pa

CliSpec == CliInit /\ [][CliNext]_vars

(***************************************************************************)
(* Properties.                                                             *)
(***************************************************************************)
Returned == outcome = "returned"
Ended == outcome # "pending"
\* the manifest entries of the document, and the manifests they were made from
Emitted == indicatorSet.o["manifests"].a
InputManifests == Get(manifestStore, "manifests").a
\* the status entries of the validation result, in their order
StatusList == Get(validationResult, "statusEntries").a
CodeOf(i) == Get(StatusList[i], "code").s

\* C1: every manifest of a non-null store gets an entry with exactly one of the
\* keys "claim" and "claim.v2": "claim.v2" when the claim's version is the
\* number 1, "claim" for any other version, no version or no claim.
C1_ClaimKeyFollowsVersion ==
    (Returned /\ Truthy(manifestStore)) =>
        /\ Len(Emitted) = Len(InputManifests)
        /\ \A i \in DOMAIN Emitted :
              LET keys == DOMAIN Emitted[i].o
                  claim == Get(InputManifests[i], "claim")
                  version == IF IsNullish(claim) THEN Undef ELSE Get(claim, "version")
                  isOne == version.t = "number" /\ version.n = 1
              IN /\ isOne => ("claim.v2" \in keys /\ "claim" \notin keys)
                 /\ ~isOne => ("claim" \in keys /\ "claim.v2" \notin keys)
C1_Witness ==
    /\ Returned /\ Truthy(manifestStore)
    /\ \E i, j \in DOMAIN Emitted :
          /\ "claim.v2" \in DOMAIN Emitted[i].o
          /\ "claim" \in DOMAIN Emitted[j].o
          /\ IsNullish(Get(InputManifests[j], "claim"))
    /\ \E m \in DOMAIN Emitted : "claim.v2" \in DOMAIN Emitted[m].o

\* C2: with a file buffer, asset_info is {alg: "sha256", hash: base64 of the
\* SHA-256 digest of the bytes}, whatever the manifest store and the validation
\* result are.
C2_AssetInfoIsFileDigest ==
    (Ended /\ Truthy(fileBuffer)) =>
        indicatorSet.o["asset_info"] =
            Obj([alg |-> Str(<<"s","h","a","2","5","6">>),
                 hash |-> Str(Base64Chars(Sha256(fileBuffer.bytes)))])
C2_Witness ==
    /\ Returned /\ Truthy(fileBuffer) /\ fileBuffer.bytes # <<>>
    /\ IsNullish(manifestStore) /\ IsNullish(validationResult)
    /\ Get(indicatorSet.o["asset_info"], "hash").t = "string"

\* what the call makes of the file buffer alone: metadata, content and
\* asset_info as lines 299-312 compute them, for some reading of the clock
FileSectionsAsComputed ==
    \E now \in Clock :
        LET moved == moveMetadataKeysToContent(
                         [metadata |-> extractMetadata(fileBuffer, exifTags, now),
                          content |-> EmptyObj])
        IN /\ indicatorSet.o["metadata"] = moved.metadata
           /\ indicatorSet.o["content"] = moved.content
           /\ indicatorSet.o["asset_info"] = AssetInfo(fileBuffer)

\* C3: with a null manifest store the call raises nothing, manifests is empty
\* and no status block is emitted, and metadata, content and asset_info are
\* filled from the file buffer as they are with a manifest store.
C3_NullStoreStillFillsFileSections ==
    /\ (Ended /\ ~Truthy(manifestStore)) =>
          /\ Returned
          /\ indicatorSet.o["manifests"] = Arr(<<>>)
          /\ "status" \notin DOMAIN indicatorSet.o
    /\ Ended => FileSectionsAsComputed
C3_Witness ==
    /\ Returned /\ ~Truthy(manifestStore) /\ IsNullish(validationResult)
    /\ Truthy(fileBuffer) /\ exifTags.t = "tags"
    /\ DOMAIN indicatorSet.o["content"].o # {}
    /\ DOMAIN indicatorSet.o["metadata"].o # {}

\* a string of base64 characters, padded with = to a multiple of four
IsBase64String(v) ==
    /\ v.t = "string"
    /\ Len(v.s) % 4 = 0
    /\ \A i \in DOMAIN v.s :
          \/ v.s[i] \in Range(Base64Alphabet)
          \/ /\ v.s[i] = "="
             /\ i >= Len(v.s) - 1
             /\ \A j \in i..Len(v.s) : v.s[j] = "="
\* every property named hash below v, at any depth, is a base64 string
RECURSIVE EveryHashIsBase64(_)
EveryHashIsBase64(v) ==
    CASE v.t = "object" ->
            \A k \in DOMAIN v.o :
                /\ k = "hash" => IsBase64String(v.o[k])
                /\ EveryHashIsBase64(v.o[k])
      [] v.t = "array" -> \A i \in DOMAIN v.a : EveryHashIsBase64(v.a[i])
      [] OTHER -> TRUE
ClaimViewOf(entry) ==
    IF "claim.v2" \in DOMAIN entry.o THEN entry.o["claim.v2"] ELSE entry.o["claim"]

\* C4: in the returned document every property named hash, at any depth, is a
\* base64 string and never a raw byte array: in asset_info, in the projected
\* assertions, in the HashedURI lists and in claim_generator.
C4_EveryHashIsBase64 ==
    Returned =>
        /\ EveryHashIsBase64(indicatorSet.o["asset_info"])
        /\ \A i \in DOMAIN Emitted :
              /\ \A label \in DOMAIN Emitted[i].o["assertions"].o :
                    EveryHashIsBase64(Emitted[i].o["assertions"].o[label])
              /\ EveryHashIsBase64(ClaimViewOf(Emitted[i]))

ContentAllowlist ==
    {<<"i","m","a","g","e","W","i","d","t","h">>, <<"i","m","a","g","e","H","e","i","g","h","t">>, <<"b","i","t","D","e","p","t","h">>, <<"c","o","l","o","r","T","y","p","e">>, <<"c","o","m","p","r","e","s","s","i","o","n">>, <<"f","i","l","t","e","r">>,
     <<"i","n","t","e","r","l","a","c","e">>, <<"f","i","l","e","T","y","p","e">>}

\* C5: after the call no allowlist key is a key of metadata, every allowlist key
\* the normalizer produced is a key of content with its value, content has no
\* other key, and every other key stays in metadata with its value.
C5_AllowlistKeysMoveToContent ==
    Ended =>
        \E now \in Clock :
            LET produced == extractMetadata(fileBuffer, exifTags, now).o
                metadata == indicatorSet.o["metadata"].o
                content == indicatorSet.o["content"].o
            IN /\ ContentAllowlist \cap DOMAIN metadata = {}
               /\ \A k \in ContentAllowlist \cap DOMAIN produced :
                     k \in DOMAIN content /\ content[k] = produced[k]
               /\ DOMAIN content \subseteq ContentAllowlist
               /\ \A k \in (DOMAIN produced) \ ContentAllowlist :
                     k \in DOMAIN metadata /\ metadata[k] = produced[k]
C5_Witness ==
    /\ Returned /\ exifTags.t = "tags"
    /\ <<"i","m","a","g","e","W","i","d","t","h">> \in DOMAIN indicatorSet.o["content"].o
    /\ <<"i","m","a","g","e","W","i","d","t","h">> \notin DOMAIN indicatorSet.o["metadata"].o
    /\ DOMAIN indicatorSet.o["metadata"].o # {}

\* the entries whose code contains p, and the first of them
Matching(p) == {i \in DOMAIN StatusList : Includes(CodeOf(i), p)}
FirstMatching(p) == CHOOSE i \in Matching(p) : \A j \in Matching(p) : i <= j
StatusOf(entry) == entry.o["status"].o

\* C6: status.signature of every emitted manifest is the code of the first
\* entry, in list order, whose code contains "claimSignature.", and "unknown"
\* when there is none.
C6_SignatureIsFirstMatch ==
    (Returned /\ Truthy(manifestStore)) =>
        \A e \in DOMAIN Emitted :
            StatusOf(Emitted[e]).signature =
                IF Matching(<<"c","l","a","i","m","S","i","g","n","a","t","u","r","e",".">>) = {} THEN Str(<<"u","n","k","n","o","w","n">>)
                ELSE Str(CodeOf(FirstMatching(<<"c","l","a","i","m","S","i","g","n","a","t","u","r","e",".">>)))
C6_Witness ==
    /\ Returned /\ Truthy(manifestStore) /\ Emitted # <<>>
    /\ \E i, j \in Matching(<<"c","l","a","i","m","S","i","g","n","a","t","u","r","e",".">>) : i < j /\ CodeOf(i) # CodeOf(j)
    /\ StatusOf(Emitted[1]).signature = Str(CodeOf(1))

\* C7: status.trust of every emitted manifest is the code of the first entry
\* whose code contains "signingCredential", and the empty string when there is
\* none.
C7_TrustIsFirstMatchOrEmpty ==
    (Returned /\ Truthy(manifestStore)) =>
        \A e \in DOMAIN Emitted :
            StatusOf(Emitted[e]).trust =
                IF Matching(<<"s","i","g","n","i","n","g","C","r","e","d","e","n","t","i","a","l">>) = {} THEN Str(<<>>)
                ELSE Str(CodeOf(FirstMatching(<<"s","i","g","n","i","n","g","C","r","e","d","e","n","t","i","a","l">>)))
C7_Witness ==
    /\ Returned /\ Truthy(manifestStore) /\ Emitted # <<>>
    /\ StatusList # <<>> /\ Matching(<<"s","i","g","n","i","n","g","C","r","e","d","e","n","t","i","a","l">>) = {}
    /\ StatusOf(Emitted[1]).trust = Str(<<>>)

\* C8: status.content is the code of the first entry containing
\* "assertion.dataHash" if there is one anywhere in the list, otherwise the code
\* of the first entry containing "assertion.hash.bmff", otherwise "unknown".
C8_ContentPrefersDataHash ==
    (Returned /\ Truthy(manifestStore)) =>
        \A e \in DOMAIN Emitted :
            StatusOf(Emitted[e]).content =
                IF Matching(<<"a","s","s","e","r","t","i","o","n",".","d","a","t","a","H","a","s","h">>) # {}
                THEN Str(CodeOf(FirstMatching(<<"a","s","s","e","r","t","i","o","n",".","d","a","t","a","H","a","s","h">>)))
                ELSE IF Matching(<<"a","s","s","e","r","t","i","o","n",".","h","a","s","h",".","b","m","f","f">>) # {}
                THEN Str(CodeOf(FirstMatching(<<"a","s","s","e","r","t","i","o","n",".","h","a","s","h",".","b","m","f","f">>)))
                ELSE Str(<<"u","n","k","n","o","w","n">>)
C8_Witness ==
    /\ Returned /\ Truthy(manifestStore) /\ Emitted # <<>>
    /\ \E i \in Matching(<<"a","s","s","e","r","t","i","o","n",".","h","a","s","h",".","b","m","f","f">>) :
          \E j \in Matching(<<"a","s","s","e","r","t","i","o","n",".","d","a","t","a","H","a","s","h">>) :
              i < j /\ StatusOf(Emitted[1]).content = Str(CodeOf(j))

\* the entries whose code contains "assertion" and the last segment of their url
AssertionEntries == Matching(<<"a","s","s","e","r","t","i","o","n">>)
UrlTail(i) ==
    LET parts == Split(Get(StatusList[i], "url").s, "/") IN parts[Len(parts)]
\* the documentation's example: a single entry, a data-hash mismatch at
\* .../c2pa.actions.v2
IsExampleList ==
    /\ Len(StatusList) = 1
    /\ CodeOf(1) = <<"a","s","s","e","r","t","i","o","n",".","d","a","t","a","H","a","s","h",".","m","i","s","m","a","t","c","h">>
    /\ Get(StatusList[1], "url").t = "string"
    /\ UrlTail(1) = <<"c","2","p","a",".","a","c","t","i","o","n","s",".","v","2">>
ExampleHolds(entry) ==
    IsExampleList =>
        /\ StatusOf(entry).assertion =
              Obj(<<"c","2","p","a",".","a","c","t","i","o","n","s",".","v","2">> :> Str(<<"a","s","s","e","r","t","i","o","n",".","d","a","t","a","H","a","s","h",".","m","i","s","m","a","t","c","h">>))
        /\ StatusOf(entry).content = Str(<<"a","s","s","e","r","t","i","o","n",".","d","a","t","a","H","a","s","h",".","m","i","s","m","a","t","c","h">>)

C10_AssertionDefaultsToUnknown ==
    (Returned /\ Truthy(manifestStore) /\ AssertionEntries = {}) =>
        \A e \in DOMAIN Emitted : StatusOf(Emitted[e]).assertion = Str(<<"u","n","k","n","o","w","n">>)

\* C11: the returned document has the key "extras:validation_status" exactly
\* when a validation result was supplied, and then the key holds the summary of
\* that result; a document returned for a manifest store always has it.
C11_ValidationStatusIffResultSupplied ==
    Returned =>
        /\ ("extras:validation_status" \in DOMAIN indicatorSet.o) <=> Truthy(validationResult)
        /\ Truthy(validationResult) =>
              indicatorSet.o["extras:validation_status"] = ValidationStatus(validationResult)
        /\ Truthy(manifestStore) => "extras:validation_status" \in DOMAIN indicatorSet.o
C11_Witness ==
    /\ Returned /\ IsNullish(manifestStore) /\ Truthy(validationResult)
    /\ indicatorSet.o["manifests"] = Arr(<<>>)
    /\ Get(indicatorSet.o["extras:validation_status"], "entries").a # <<>>

\* C12: when the metadata reader throws, metadata is the diagnostic record
\* {extractedAt, source: "exifreader", error}, content is empty, and the call
\* ends as it does, with the same asset_info and manifest entries, when the
\* reader succeeds on the same arguments.
C12_ReaderFailureIsContained ==
    (Ended /\ Truthy(fileBuffer) /\ exifTags.t = "throws") =>
        LET metadata == indicatorSet.o["metadata"].o IN
        /\ DOMAIN metadata = {K_extractedAt, K_source, K_error}
        /\ metadata[K_source] = Str(S_exifreader)
        /\ metadata[K_error] = Str(S_FailedToExtract \o exifTags.message)
        /\ metadata[K_extractedAt].t = "string" /\ metadata[K_extractedAt].s \in Clock
        /\ indicatorSet.o["content"] = EmptyObj
        /\ \A now \in Clock :
              LET ok == generateIndicatorSet(manifestStore, validationResult, fileBuffer,
                                             DefaultTags, now)
              IN /\ outcome = ok.outcome
                 /\ indicatorSet.o["asset_info"] = ok.indicatorSet.o["asset_info"]
                 /\ indicatorSet.o["manifests"] = ok.indicatorSet.o["manifests"]
C12_Witness ==
    /\ Returned /\ Truthy(fileBuffer) /\ exifTags.t = "throws"
    /\ Truthy(manifestStore) /\ Emitted # <<>>
    /\ K_error \in DOMAIN indicatorSet.o["metadata"].o

\* the validation result is one the status classifier can read: every entry
\* whose code contains "assertion" has a string url
StatusEntriesReadable ==
    /\ Truthy(validationResult)
    /\ \A i \in AssertionEntries : Get(StatusList[i], "url").t = "string"

\* C13: with a readable validation result, a call on a manifest store ends by
\* returning, whichever optional fields its manifests lack.
C13_MissingFieldNeverAborts ==
    (Ended /\ Truthy(manifestStore) /\ StatusEntriesReadable) => Returned

\* C18: a call leaves the manifest store and the validation result as they
\* were.
C18_InputsUnchanged ==
    [][manifestStore' = manifestStore /\ validationResult' = validationResult]_vars

\* C19: every emitted manifest has label, assertions, claim_signature and
\* status, its claim view has the eight claim keys, and its claim_signature has
\* algorithm and a certificate record with issuer, subject, serial_number and
\* validity {not_before, not_after}.
C19_ManifestEntryShape ==
    Returned =>
        \A e \in DOMAIN Emitted :
            LET entry == Emitted[e].o
                signature == entry["claim_signature"].o
            IN /\ {"label", "assertions", "claim_signature", "status"} \subseteq DOMAIN entry
               /\ {"dc:title", "instanceID", "claim_generator", "alg", "signature",
                   "created_assertions", "gathered_assertions", "redacted_assertions"}
                      \subseteq DOMAIN ClaimViewOf(Emitted[e]).o
               /\ "algorithm" \in DOMAIN signature
               /\ "certificate" \in DOMAIN signature
               /\ {"issuer", "subject", "serial_number", "validity"}
                      \subseteq DOMAIN signature["certificate"].o
               /\ {"not_before", "not_after"}
                      \subseteq DOMAIN signature["certificate"].o["validity"].o

\* processManifestStore has returned its result to processFile (cli.js:77)
Resolved == pc \in {"write", "report", "done"} /\ Truthy(c2paInfo)
\* a reader accepted the file and a non-empty manifest container was extracted
ContainerFound ==
    /\ DetectedFormat(asset.canRead) # "none"
    /\ ~IsThrows(asset.construct)
    /\ asset.jumbf.t = "Uint8Array" /\ asset.jumbf.bytes # <<>>
\* deserializing the container or reading the manifest store throws
ReadThrows == IsThrows(asset.superBox) \/ IsThrows(asset.manStore)
ReadMessage ==
    IF IsThrows(asset.superBox) THEN asset.superBox.message ELSE asset.manStore.message
CallCount(name) == Cardinality({i \in DOMAIN calls : calls[i] = name})

\* C14: when no reader accepts the bytes, processManifestStore returns the
\* initial result with error = "Unsupported file format for C2PA processing",
\* and no container is extracted and validate is not called.
C14_UnsupportedFormatShortCircuits ==
    (Resolved /\ asset.canRead \cap {"JPEG", "PNG", "BMFF"} = {}) =>
        /\ c2paInfo = Obj([error |-> Str(<<"U","n","s","u","p","p","o","r","t","e","d"," ","f","i","l","e"," ","f","o","r","m","a","t"," ","f","o","r"," ","C","2","P","A"," ","p","r","o","c","e","s","s","i","n","g">>),
                           fileFormat |-> Str(<<"u","n","k","n","o","w","n">>),
                           hasManifest |-> Bool(FALSE),
                           manifestCount |-> Num(0),
                           manifests |-> Arr(<<>>),
                           validationStatus |-> Str(<<"n","o","t","_","a","p","p","l","i","c","a","b","l","e">>),
                           indicatorSet |-> Null])
        /\ calls = <<>>
C14_Witness ==
    /\ pc = "done" /\ Resolved /\ asset.canRead = {} /\ options.set
    /\ Get(c2paInfo, "error") = Str(S_Unsupported)

\* C15: when deserializing the container or reading the store throws, the
\* result has validationStatus = {isValid: false, error: the message,
\* validationErrors: []}, error null and the detected file format.
C15_ReadFailureIsDegradedValidation ==
    (Resolved /\ ContainerFound /\ ReadThrows) =>
        /\ Get(c2paInfo, "validationStatus") =
              Obj([isValid |-> Bool(FALSE), error |-> Str(ReadMessage),
                   validationErrors |-> Arr(<<>>)])
        /\ Get(c2paInfo, "error") = Null
        /\ Get(c2paInfo, "fileFormat") = Str(FormatName[DetectedFormat(asset.canRead)])
C15_Witness ==
    /\ pc = "done" /\ Resolved /\ ContainerFound
    /\ ~IsThrows(asset.superBox) /\ IsThrows(asset.manStore)
    /\ Get(Get(c2paInfo, "validationStatus"), "error") = Str(asset.manStore.message)

\* C16: when the read throws and an indicator set was requested, the result
\* carries an indicator set whose manifests array is empty.
C16_ReadFailureStillCarriesIndicatorSet ==
    (Resolved /\ ContainerFound /\ ReadThrows /\ options.set) =>
        /\ Get(c2paInfo, "indicatorSet").t = "object"
        /\ Get(Get(c2paInfo, "indicatorSet"), "manifests") = Arr(<<>>)

\* C17: the container is deserialized and validate is called only when a
\* container was found; validate is never called before the store was read nor
\* twice; and once the result is returned for a container that was found and
\* read (every manifest of the store being complete), validate was called
\* exactly once, whatever the asIndicatorSet flag.
C17_ValidateOncePerReadContainer ==
    /\ (CallCount("SuperBox.fromBuffer") > 0 \/ CallCount("validate") > 0) => ContainerFound
    /\ CallCount("validate") <= 1
    /\ \A i \in DOMAIN calls :
          calls[i] = "validate" => \E j \in 1..(i - 1) : calls[j] = "ManifestStore.read"
    /\ (/\ Resolved /\ ContainerFound /\ ~ReadThrows
        /\ ~FlatLoop(Get(asset.manStore, "manifests").a, 1, <<>>).threw) =>
            CallCount("validate") = 1

\* C20: a run with --set on a supported image whose store was read with at
\* least one manifest leaves <basename>.json and <basename>-indicators.json, and
\* the manifests array of the indicator-set file is not empty.
C20_SetRunWritesManifests ==
    (/\ pc = "done" /\ options.set
     /\ inputFile.exists /\ ~isTextFile(inputFile)
     /\ ContainerFound /\ ~ReadThrows
     /\ Get(asset.manStore, "manifests").a # <<>>) =>
        /\ outputFileName(inputFile) \in DOMAIN disk.files
        /\ indicatorSetFileName(inputFile) \in DOMAIN disk.files
        /\ Get(disk.files[indicatorSetFileName(inputFile)].value, "manifests").t = "array"
        /\ Get(disk.files[indicatorSetFileName(inputFile)].value, "manifests").a # <<>>

\* C21: a run on a missing input file reports an error and exits with status 1
\* without touching the output directory or writing any file; a run on an
\* existing file ends with the output directory present and <basename>.json
\* written.
C21_MissingInputTouchesNothing ==
    [][/\ ~inputFile.exists =>
            /\ disk' = disk
            /\ exitCode' = 1
            /\ pc' = "done"
            /\ console' = <<Line("error", "Error:",
                   <<Str(<<"I","n","p","u","t"," ","f","i","l","e"," ","d","o","e","s"," ","n","o","t"," ","e","x","i","s","t",":"," ">> \o inputFile.name \o inputFile.ext)>>)>>
       /\ (inputFile.exists /\ pc' = "done") =>
            /\ disk'.outputDir
            /\ (inputFile.name \o <<".","j","s","o","n">>) \in DOMAIN disk'.files
            /\ exitCode' = 0]_vars
C21_Witness ==
    /\ pc = "done" /\ ~inputFile.exists /\ exitCode = 1
    /\ disk = EmptyDisk /\ Len(console) = 1

\* C22: the main output of a run on a non-empty binary file has a content
\* section with type = "binary" and size = the file size, which is positive.
C22_BinaryContentSection ==
    (/\ pc \in {"report", "done"}
     /\ inputFile.exists /\ ~isTextFile(inputFile) /\ Len(inputFile.content) > 0) =>
        LET content == Get(disk.files[outputFileName(inputFile)].value, "content") IN
        /\ Get(content, "type") = Str(<<"b","i","n","a","r","y">>)
        /\ Get(content, "size") = Num(Len(inputFile.content))
        /\ Get(content, "size").n > 0

\* C29: a result returned in flat-summary mode has manifestCount equal to the
\* number of entries of manifests; and a result with hasManifest false has
\* manifestCount 0, no manifests and indicatorSet null.
C29_ManifestCountMatchesManifests ==
    Resolved =>
        /\ ~options.set =>
              Get(c2paInfo, "manifestCount") = Num(Len(Get(c2paInfo, "manifests").a))
        /\ Get(c2paInfo, "hasManifest") = Bool(FALSE) =>
              /\ Get(c2paInfo, "manifestCount") = Num(0)
              /\ Get(c2paInfo, "manifests") = Arr(<<>>)
              /\ Get(c2paInfo, "indicatorSet") = Null

\* C30: a run whose result has a non-null error prints the "C2PA: Error -"
\* line with the message and not the "no manifests found" line.
C30_ErrorIsReported ==
    (pc = "done" /\ Truthy(c2paInfo) /\ Get(c2paInfo, "error") # Null) =>
        /\ \E i \in DOMAIN console :
              console[i] = Line("log", "C2PA: Error -", <<Get(c2paInfo, "error")>>)
        /\ \A i \in DOMAIN console : console[i].line # "C2PA: No manifests found in file"

\* the assertions of input manifest i, the empty list without a collection
InputAssertionList(i) ==
    LET assertions == Get(InputManifests[i], "assertions") IN
    IF Truthy(assertions) /\ Get(assertions, "assertions").t = "array"
    THEN Get(assertions, "assertions").a ELSE <<>>
\* the key an assertion is filed under
LabelKeyOf(assertion) ==
    LET label == Get(assertion, "label") IN
    IF label.t = "string" /\ label.s # <<>> THEN label.s ELSE <<"u","n","k","n","o","w","n">>
\* no later assertion of the list has the key of assertion j
IsLastWithKey(list, j) ==
    \A l \in DOMAIN list : l > j => LabelKeyOf(list[l]) # LabelKeyOf(list[j])
\* the projected assertions of emitted manifest i
ProjectedOf(i) == Emitted[i].o["assertions"].o

\* C23: a call that follows a returned call on the same manifest store returns
\* the same manifest entries, and projecting the assertions of a manifest once
\* more, after a projection rewrote them, gives the same map.
C23_RepeatedProjectionIsStable ==
    [][/\ (outcome = "returned" /\ outcome' = "returned") =>
              indicatorSet'.o["manifests"] = indicatorSet.o["manifests"]
       /\ Truthy(manifestStore) =>
              \A i \in DOMAIN InputManifests :
                  LET assertions == Get(InputManifests[i], "assertions") IN
                  processAssertions(AssertionsAfter(assertions)) = processAssertions(assertions)]_vars
C23_Witness ==
    /\ Returned /\ Truthy(manifestStore)
    /\ \E i \in DOMAIN Emitted : \E j \in DOMAIN InputAssertionList(i) :
          LET source == InputAssertionList(i)[j] IN
          /\ LabelKeyOf(source) = <<"c","2","p","a",".","i","n","g","r","e","d","i","e","n","t">>
          /\ Get(Get(source, "c2pa_manifest"), "hash") = Str(<<"/","w","A","=">>)
          /\ Get(Get(Emitted[i].o["assertions"], <<"c","2","p","a",".","i","n","g","r","e","d","i","e","n","t">>), "c2pa_manifest")
                = Obj([url |-> Str(<<"x">>), hash |-> Str(<<"/","w","A","=">>)])

\* the segments of a DN string between its commas, as index pairs
DnCuts(s) == {0, Len(s) + 1} \cup {i \in DOMAIN s : s[i] = ","}
DnSegments(s) ==
    {seg \in DnCuts(s) \X DnCuts(s) :
        seg[1] < seg[2] /\ ~\E c \in DnCuts(s) : seg[1] < c /\ c < seg[2]}
DnText(s, seg) == Trim(SubSeq(s, seg[1] + 1, seg[2] - 1))
DnFirstEq(text) ==
    CHOOSE i \in DOMAIN text : text[i] = "=" /\ \A j \in 1..(i - 1) : text[j] # "="
DnKept(s) ==
    {seg \in DnSegments(s) :
        /\ \E i \in DOMAIN DnText(s, seg) : DnText(s, seg)[i] = "="
        /\ DnFirstEq(DnText(s, seg)) > 1}
DnKey(s, seg) == LET text == DnText(s, seg) IN Trim(SubSeq(text, 1, DnFirstEq(text) - 1))
DnValue(s, seg) ==
    LET text == DnText(s, seg) IN Trim(SubSeq(text, DnFirstEq(text) + 1, Len(text)))
\* what the claim says the parser returns for v
DnExpected(v) ==
    IF v.t # "string" THEN EmptyObj
    ELSE Obj([key \in {DnKey(v.s, seg) : seg \in DnKept(v.s)} |->
                 LET last == CHOOSE seg \in DnKept(v.s) :
                                 /\ DnKey(v.s, seg) = key
                                 /\ \A other \in DnKept(v.s) :
                                       DnKey(v.s, other) = key => other[1] <= seg[1]
                 IN Str(DnValue(v.s, last))])
CertificateOf(i) ==
    OptGet(Get(Get(InputManifests[i], "signature"), "signatureData"), "certificate")

\* C24: the issuer and subject of every emitted manifest are the distinguished
\* names of its certificate parsed as the claim says: {} for a non-string, and
\* for a string one entry per trimmed key of a segment with an "=" after a
\* non-empty key, holding the trimmed text after the first "=" of the last
\* such segment.
C24_DistinguishedNameParsing ==
    (Returned /\ Truthy(manifestStore)) =>
        \A i \in DOMAIN Emitted :
            LET signature == Emitted[i].o["claim_signature"].o IN
            /\ signature["issuer"] = DnExpected(OptGet(CertificateOf(i), "issuer"))
            /\ signature["subject"] = DnExpected(OptGet(CertificateOf(i), "subject"))
C24_Witness ==
    /\ Returned /\ Truthy(manifestStore)
    /\ \E i \in DOMAIN Emitted :
          LET signature == Emitted[i].o["claim_signature"].o IN
          /\ OptGet(CertificateOf(i), "subject") = Str(<<"C","N","=","S","i","g","n","e","r",",","b","o","g","u","s",",","=","x",",","O","=","A",",","O","=","B">>)
          /\ signature["subject"] = Obj((<<"C","N">> :> Str(<<"S","i","g","n","e","r">>)) @@ (<<"O">> :> Str(<<"B">>)))
          /\ signature["issuer"] =
                Obj((<<"C","N">> :> Str(<<"R","o","o","t"," ","C","A">>)) @@ (<<"O">> :> Str(<<"E","x","a","m","p","l","e","=","C","o","r","p">>))
                    @@ (<<"C">> :> Str(<<"U","S">>)))

\* C25: no projected assertion has a top-level key uuid, sourceBox,
\* componentType, label or content, and it has every other top-level key of the
\* assertion it was made from.
C25_BookkeepingKeysAreStripped ==
    (Returned /\ Truthy(manifestStore)) =>
        \A i \in DOMAIN Emitted :
            /\ \A key \in DOMAIN ProjectedOf(i) :
                  DOMAIN ProjectedOf(i)[key].o
                      \cap {"uuid", "sourceBox", "componentType", "label", "content"} = {}
            /\ \A j \in DOMAIN InputAssertionList(i) :
                  LET source == InputAssertionList(i)[j] IN
                  IsLastWithKey(InputAssertionList(i), j) =>
                      DOMAIN ProjectedOf(i)[LabelKeyOf(source)].o =
                          (DOMAIN source.o)
                              \ {"uuid", "sourceBox", "componentType", "label", "content"}
C25_Witness ==
    /\ Returned /\ Truthy(manifestStore)
    /\ \E i \in DOMAIN Emitted : \E j \in DOMAIN InputAssertionList(i) :
          LET source == InputAssertionList(i)[j] IN
          /\ {"uuid", "sourceBox", "componentType", "label", "content"} \subseteq DOMAIN source.o
          /\ DOMAIN ProjectedOf(i)[LabelKeyOf(source)].o = {"hash", "pad", "name"}

\* C26: the assertions map of an emitted manifest has one key per distinct
\* label of the manifest's assertions, "unknown" standing for a missing label,
\* each key holds the projection of the last assertion filed under it, and a
\* manifest without an assertions collection gets the empty map.
C26_AssertionsKeyedByLabelLastWins ==
    (Returned /\ Truthy(manifestStore)) =>
        \A i \in DOMAIN Emitted :
            LET list == InputAssertionList(i) IN
            /\ DOMAIN ProjectedOf(i) = {LabelKeyOf(list[j]) : j \in DOMAIN list}
            /\ \A j \in DOMAIN list :
                  IsLastWithKey(list, j) =>
                      ProjectedOf(i)[LabelKeyOf(list[j])] = ProjectedAssertion(list[j])
            /\ ~Truthy(Get(InputManifests[i], "assertions")) =>
                  Emitted[i].o["assertions"] = EmptyObj
C26_Witness ==
    /\ Returned /\ Truthy(manifestStore)
    /\ \E i \in DOMAIN Emitted :
          LET list == InputAssertionList(i) IN
          /\ Len(list) = 2
          /\ ~HasOwn(list[1], "label") /\ Get(list[2], "label") = Str(<<>>)
          /\ DOMAIN ProjectedOf(i) = {<<"u","n","k","n","o","w","n">>}
          /\ ProjectedOf(i)[<<"u","n","k","n","o","w","n">>] = Obj([value |-> Num(0)])

\* the three HashedURI lists: the key of the claim view and of the claim
HashedURIKeys ==
    { <<"created_assertions", "assertions">>,
      <<"gathered_assertions", "gatheredAssertions">>,
      <<"redacted_assertions", "redactedAssertions">> }

C28_EveryCombinationReturns ==
    (/\ Ended
     /\ IsNullish(manifestStore) \/ manifestStore = DefaultStore
     /\ IsNullish(validationResult) \/ StatusEntriesReadable) => Returned
====
